---- MODULE Spec2Model ----
(***************************************************************************)
(* MemoMe: a note list kept in a document store, ordered on the client by  *)
(* sortNotes and reordered by drag and drop.  The current App component    *)
(* is the JavaScript that follows the README text in src/README.md         *)
(* (lines 65-1650); src/src/App.jsx holds two earlier revisions of the     *)
(* same component, whose sortNotes, getSortIndex and findNextSortIndex     *)
(* are unchanged in the current one.                                       *)
(*                                                                         *)
(* Specifications:                                                         *)
(*   SpecSort     sortNotes applied to bounded note sequences              *)
(*   SpecReorder  reorderWithinGroup applied to bounded note sets, and     *)
(*                its batch written back                                   *)
(*   SpecIndex    findNextSortIndex, findGroupTopIndex, and the documents  *)
(*                handleTogglePin and submitCreate write, on bounded note  *)
(*                sets                                                     *)
(*   Spec         the component: store, snapshots, mouse and touch drag    *)
(*   SpecSwipe    the component on the touch layout, its touch releases    *)
(*                taken over a grid of displacements                       *)
(*   SpecStale    the component with a second client of the same account   *)
(*                deleting a note or toggling its pin during a drag        *)
(*   SpecFollower updateDragFollowerPosition, its animation frame callback *)
(*                and the code that sets and clears the drag follower,     *)
(*                called in any order with pointer positions               *)
(***************************************************************************)
EXTENDS Integers, Sequences, FiniteSets, TLC

VARIABLES
    \* SpecSort
    items,          \* the array handed to sortNotes
    sorted,         \* what sortNotes returned
    sortPhase,      \* "input" | "sorted" | "resorted"
    \* SpecReorder
    rNotes,         \* the notes array (in snapshot order) the reorder starts from
    rCall,          \* the arguments of the reorderWithinGroup call
    rResult,        \* what the call did: its outcome and the batch it filled
    rAfter,         \* the notes array once the batch is committed and read back
    rPhase,         \* "input" | "called" | "written"
    \* SpecIndex
    iNotes,         \* the notes array (in snapshot order) the call starts from
    iCall,          \* the function or handler called, and its arguments
    iResult,        \* the number returned, or the fields written
    iAfter,         \* the notes array once the write is read back
    iPhase,         \* "input" | "called" | "written"
    \* Spec: the store
    docs,           \* the user's note documents on the server
    writeQueue,     \* writes dispatched and not yet acknowledged, oldest first
    \* Spec: the App component
    notes,          \* notes state: the last snapshot, in document order
    orderedNotes,   \* the useMemo value sortNotes(notes)
    isTouchLayout,  \* isTouchLayout state
    editId,         \* editId state
    dragId,         \* dragId state
    dragIdRef,      \* dragIdRef.current
    touchDragId,    \* touchDragId state
    dragMovedId,    \* dragMovedId state
    dragFollower,   \* dragFollower state: its noteId, NoId for null
    dragFollowerRaf,    \* dragFollowerRafRef.current is a pending frame request
    dropIndicator,  \* dropIndicator state: Null or <<[pinned, index]>>
    dropIndicatorRef,   \* dropIndicatorRef.current
    longPressTimer, \* longPressTimerRef.current: the note its callback closes over
    touchScrollLock,    \* touchScrollLockRef.current
    swipeRef,       \* swipeRef.current.noteId
    errorMessage,   \* errorMessage state
    \* Spec: the browser
    nativeDrag,     \* the note id in the dataTransfer of the drag in progress
    nativeDropped,  \* the drop event of that drag has been delivered
    nativeOver,     \* what the last dragover event accepted: Null for nothing,
                    \* <<id>> for a note, <<NoId>> for a drop spacer
    touchOn,        \* the note element the finger went down on
    \* Spec: history
    writeCount,     \* the writes dispatched so far, by kind
    lastOp,         \* the handler that ran last, its arguments and what it did
    indicatorEverSet,   \* an insertion indicator was set in the drag under way
    lastTouchEnd,   \* SpecSwipe: the touch release handled last, Null after other steps
    \* SpecFollower (with dragFollower and dragFollowerRaf)
    pendingDragFollowerRef, \* pendingDragFollowerRef.current: [noteId, point]
    lastDragFollowerRef,    \* lastDragFollowerRef.current: [noteId, point]
    dragFollowerAt, \* dragFollower.currentX, currentY
    frameCallbacks, \* the callbacks the browser holds for the next animation frame
    lastArrived,    \* the pointer position handed over last, and what became of it
    \* SpecStale
    gesture,        \* the drag under way: its note, the note's group at the start, and
                    \* what snapshots did to the note since; Null for none
    remoteWrites,   \* the writes the second client has made
    \* SpecBounds
    bNotes,         \* the notes array (in snapshot order) the evaluation starts from
    bCall,          \* the arguments and the geometry of the evaluation
    bResult,        \* the indicator it set, Null when it returned false
    bPhase,         \* "idle" | "input" | "called"
    \* SpecBody
    nValue,         \* the string handed to normalizeBody
    nOnce,          \* what normalizeBody returned
    nTwice,         \* what normalizeBody returned for that
    nPhase,         \* "idle" | "input" | "once" | "twice"
    \* SpecWorker: the service worker
    swState,        \* "idle" | "parsed" | "installed" | "activated" | "redundant"
    swCache,        \* the entries of the origin's caches: [cache, key, response]
    swPuts,         \* the cache.put calls not yet carried out: [key, response]
    swLast,         \* the fetch event handled last and the response the page got
    \* SpecForm: the App's forms, buttons and account over the requests in flight
    fUser,          \* user state is a signed-in, allowed user
    fDocs,          \* the user's note documents on the server: [id, pinned]
    fNotes,         \* notes state: the last snapshot
    fDraft,         \* draft state
    fEditId,        \* editId state
    fEditBody,      \* editBody state
    fAuthPending,   \* authPending state
    fError,         \* errorMessage state, <<>> for the empty string
    fQueue,         \* the persistence and auth calls whose promise is not settled
    fLast           \* the handler or continuation that ran last, and its arguments

sortVars == <<items, sorted, sortPhase>>

reorderVars == <<rNotes, rCall, rResult, rAfter, rPhase>>

indexVars == <<iNotes, iCall, iResult, iAfter, iPhase>>

storeVars == <<docs, writeQueue, writeCount>>

dragVars == <<dragId, dragIdRef, touchDragId, dragMovedId, dragFollower, dragFollowerRaf,
              dropIndicator, dropIndicatorRef, longPressTimer, touchScrollLock>>

browserVars == <<nativeDrag, nativeDropped, nativeOver, touchOn>>

staleVars == <<gesture, remoteWrites>>

boundsVars == <<bNotes, bCall, bResult, bPhase>>

\* The variables of the specifications of single functions added to the App's
bodyVars == <<nValue, nOnce, nTwice, nPhase>>

workerVars == <<swState, swCache, swPuts, swLast>>

formVars == <<fUser, fDocs, fNotes, fDraft, fEditId, fEditBody, fAuthPending, fError, fQueue, fLast>>

extraVars == <<boundsVars, bodyVars, workerVars, formVars>>

followerVars == <<pendingDragFollowerRef, lastDragFollowerRef, dragFollowerAt, frameCallbacks,
                  lastArrived>>

appVars == <<storeVars, notes, orderedNotes, isTouchLayout, editId, dragVars, swipeRef, errorMessage,
             browserVars, lastOp, indicatorEverSet, lastTouchEnd, followerVars, staleVars, extraVars>>

vars == <<sortVars, reorderVars, indexVars, appVars>>

----------------------------------------------------------------------------
(* Bounds *)

MaxNotes == 3
MaxSortIndex == 2
MaxTime == 1
MaxInFlight == 1
MaxBatches == 1
MaxDeletes == 1

Ids == 1..MaxNotes

\* The empty string '' that dragId, editId and the like hold when unset.
NoId == 0

\* note.sortIndex as getSortIndex sees it: Null when the field is absent
\* (Number(undefined) is NaN), <<v>> for the finite number v.
Null == <<>>

IndexValues == {Null} \cup {<<v>> : v \in (0 - MaxSortIndex)..MaxSortIndex}

\* toMillis(note.updatedAt): 0 for a missing timestamp.
TimeValues == 0..MaxTime

Note == [id : Ids, pinned : BOOLEAN, sortIndex : IndexValues, updatedAt : TimeValues]

Range(s) == {s[i] : i \in DOMAIN s}

\* The variables of a specification that is not the one being checked.
SortIdle ==
    /\ items = <<>>
    /\ sorted = <<>>
    /\ sortPhase = "idle"

ReorderIdle ==
    /\ rNotes = <<>>
    /\ rCall = <<>>
    /\ rResult = <<>>
    /\ rAfter = <<>>
    /\ rPhase = "idle"

BoundsIdle ==
    /\ bNotes = <<>>
    /\ bCall = <<>>
    /\ bResult = <<>>
    /\ bPhase = "idle"

BodyIdle ==
    /\ nValue = <<>>
    /\ nOnce = <<>>
    /\ nTwice = <<>>
    /\ nPhase = "idle"

WorkerIdle ==
    /\ swState = "idle"
    /\ swCache = {}
    /\ swPuts = {}
    /\ swLast = <<>>

FormIdle ==
    /\ fUser = FALSE
    /\ fDocs = {}
    /\ fNotes = {}
    /\ fDraft = <<>>
    /\ fEditId = 0
    /\ fEditBody = <<>>
    /\ fAuthPending = FALSE
    /\ fError = <<>>
    /\ fQueue = <<>>
    /\ fLast = <<>>

ExtraIdle == BoundsIdle /\ BodyIdle /\ WorkerIdle /\ FormIdle

IndexIdle ==
    /\ iNotes = <<>>
    /\ iCall = <<>>
    /\ iResult = <<>>
    /\ iAfter = <<>>
    /\ iPhase = "idle"

----------------------------------------------------------------------------
(* Note bodies.  A string is the sequence of its characters.               *)

\* Characters that String.prototype.trim and trimEnd strip: white space and
\* line terminators, of which the model has these
WhiteSpace == {" ", "\t", "\n", "\r"}

\* value.replace(/\r\n?/g, '\n')
RECURSIVE replaceLineEnds(_)
replaceLineEnds(value) ==
    IF value = <<>> THEN <<>>
    ELSE IF value[1] = "\r"
    THEN IF Len(value) >= 2 /\ value[2] = "\n"
         THEN <<"\n">> \o replaceLineEnds(SubSeq(value, 3, Len(value)))
         ELSE <<"\n">> \o replaceLineEnds(Tail(value))
    ELSE <<value[1]>> \o replaceLineEnds(Tail(value))

\* value.split('\n'): the lines, one more than there are line feeds
RECURSIVE splitLines(_)
splitLines(value) ==
    IF \A i \in DOMAIN value : value[i] # "\n" THEN <<value>>
    ELSE LET at == CHOOSE i \in DOMAIN value :
                       value[i] = "\n" /\ \A j \in 1..(i - 1) : value[j] # "\n"
         IN  <<SubSeq(value, 1, at - 1)>> \o splitLines(SubSeq(value, at + 1, Len(value)))

\* line.trimEnd()
RECURSIVE trimEnd(_)
trimEnd(line) ==
    IF line # <<>> /\ line[Len(line)] \in WhiteSpace
    THEN trimEnd(SubSeq(line, 1, Len(line) - 1)) ELSE line

\* value.trimStart()
RECURSIVE trimStart(_)
trimStart(value) ==
    IF value # <<>> /\ value[1] \in WhiteSpace THEN trimStart(Tail(value)) ELSE value

\* value.trim()
trim(value) == trimEnd(trimStart(value))

\* lines.join('\n')
RECURSIVE joinLines(_)
joinLines(lines) ==
    IF Len(lines) = 1 THEN lines[1]
    ELSE lines[1] \o <<"\n">> \o joinLines(Tail(lines))

\* The same without the trimEnd of each line.
normalizeBodyKeepLineEnds(value) == trim(replaceLineEnds(value))

\* normalizeBody(value)
normalizeBody(value) ==
    LET lines == splitLines(replaceLineEnds(value))
    IN  trim(joinLines([i \in DOMAIN lines |-> trimEnd(lines[i])]))

----------------------------------------------------------------------------
(* Ordering engine *)

toMillis(value) == value

getSortIndex(note) == note.sortIndex

\* String.prototype.localeCompare on document ids; ids are modelled by their
\* rank in that collation.
localeCompare(a, b) == IF a < b THEN -1 ELSE IF a > b THEN 1 ELSE 0

\* Same comparator without the final identifier tie-break.
compareNotesNoIdTie(a, b) ==
    LET aIndex == getSortIndex(a)
        bIndex == getSortIndex(b)
    IN  IF a.pinned # b.pinned THEN (IF a.pinned THEN -1 ELSE 1)
        ELSE IF aIndex # Null /\ bIndex # Null /\ aIndex # bIndex
             THEN aIndex[1] - bIndex[1]
        ELSE IF aIndex # Null /\ bIndex = Null THEN -1
        ELSE IF aIndex = Null /\ bIndex # Null THEN 1
        ELSE toMillis(b.updatedAt) - toMillis(a.updatedAt)

\* Same comparator with the pinned test dropped.
compareNotesNoPinned(a, b) ==
    LET aIndex == getSortIndex(a)
        bIndex == getSortIndex(b)
    IN  IF aIndex # Null /\ bIndex # Null /\ aIndex # bIndex
             THEN aIndex[1] - bIndex[1]
        ELSE IF aIndex # Null /\ bIndex = Null THEN -1
        ELSE IF aIndex = Null /\ bIndex # Null THEN 1
        ELSE IF toMillis(b.updatedAt) - toMillis(a.updatedAt) # 0
             THEN toMillis(b.updatedAt) - toMillis(a.updatedAt)
        ELSE localeCompare(a.id, b.id)

\* Same comparator with the "only b has an index" branch returning -1 as well.
compareNotesOneSided(a, b) ==
    LET aIndex == getSortIndex(a)
        bIndex == getSortIndex(b)
        updatedDiff == toMillis(b.updatedAt) - toMillis(a.updatedAt)
    IN  IF a.pinned # b.pinned THEN (IF a.pinned THEN -1 ELSE 1)
        ELSE IF aIndex # Null /\ bIndex # Null /\ aIndex # bIndex
             THEN aIndex[1] - bIndex[1]
        ELSE IF aIndex # Null /\ bIndex = Null THEN -1
        ELSE IF aIndex = Null /\ bIndex # Null THEN -1
        ELSE IF updatedDiff # 0 THEN updatedDiff
        ELSE localeCompare(a.id, b.id)

\* Same comparator with the notes without an index put first.
compareNotesUnsetFirst(a, b) ==
    LET aIndex == getSortIndex(a)
        bIndex == getSortIndex(b)
        updatedDiff == toMillis(b.updatedAt) - toMillis(a.updatedAt)
    IN  IF a.pinned # b.pinned THEN (IF a.pinned THEN -1 ELSE 1)
        ELSE IF aIndex # Null /\ bIndex # Null /\ aIndex # bIndex
             THEN aIndex[1] - bIndex[1]
        ELSE IF aIndex # Null /\ bIndex = Null THEN 1
        ELSE IF aIndex = Null /\ bIndex # Null THEN -1
        ELSE IF updatedDiff # 0 THEN updatedDiff
        ELSE localeCompare(a.id, b.id)

\* Same comparator with the oldest timestamp first.
compareNotesOldestFirst(a, b) ==
    LET aIndex == getSortIndex(a)
        bIndex == getSortIndex(b)
        updatedDiff == toMillis(a.updatedAt) - toMillis(b.updatedAt)
    IN  IF a.pinned # b.pinned THEN (IF a.pinned THEN -1 ELSE 1)
        ELSE IF aIndex # Null /\ bIndex # Null /\ aIndex # bIndex
             THEN aIndex[1] - bIndex[1]
        ELSE IF aIndex # Null /\ bIndex = Null THEN -1
        ELSE IF aIndex = Null /\ bIndex # Null THEN 1
        ELSE IF updatedDiff # 0 THEN updatedDiff
        ELSE localeCompare(a.id, b.id)

\* The comparator passed to Array.prototype.sort in sortNotes.
compareNotes(a, b) ==
    LET aPinned == a.pinned
        bPinned == b.pinned
        aIndex == getSortIndex(a)
        bIndex == getSortIndex(b)
        updatedDiff == toMillis(b.updatedAt) - toMillis(a.updatedAt)
    IN  IF aPinned # bPinned THEN (IF aPinned THEN -1 ELSE 1)
        ELSE IF aIndex # Null /\ bIndex # Null /\ aIndex # bIndex
             THEN aIndex[1] - bIndex[1]
        ELSE IF aIndex # Null /\ bIndex = Null THEN -1
        ELSE IF aIndex = Null /\ bIndex # Null THEN 1
        ELSE IF updatedDiff # 0 THEN updatedDiff
        ELSE localeCompare(a.id, b.id)

\* Array.prototype.sort is stable: an element is placed after every element
\* already placed that does not compare greater than it.
RECURSIVE insertSorted(_, _)
insertSorted(s, x) ==
    IF s = <<>> THEN <<x>>
    ELSE IF compareNotes(s[Len(s)], x) <= 0 THEN Append(s, x)
    ELSE Append(insertSorted(SubSeq(s, 1, Len(s) - 1), x), s[Len(s)])

RECURSIVE sortFrom(_, _, _)
sortFrom(acc, s, i) ==
    IF i > Len(s) THEN acc ELSE sortFrom(insertSorted(acc, s[i]), s, i + 1)

sortNotes(s) == sortFrom(<<>>, s, 1)

----------------------------------------------------------------------------
(* Reconciliation layer.  Array positions are 0-based as in the source;    *)
(* element i of an array a is a[i + 1].                                    *)

Min(a, b) == IF a < b THEN a ELSE b

Max(a, b) == IF a > b THEN a ELSE b

\* items.filter((item) => Boolean(item.pinned) === pinned)
filterGroup(ordered, pinned) == SelectSeq(ordered, LAMBDA n : n.pinned = pinned)

\* array.findIndex((item) => item.id === id): -1 when there is none
findIndex(s, id) ==
    IF \E i \in DOMAIN s : s[i].id = id
    THEN (CHOOSE i \in DOMAIN s : s[i].id = id /\ \A j \in 1..(i - 1) : s[j].id # id) - 1
    ELSE -1

\* The clamp without its lower bound.
safeInsertIndexNoFloor(insertIndex, length) == Min(insertIndex, length)

\* Math.max(0, Math.min(insertIndex, currentGroup.length))
safeInsertIndexOf(insertIndex, length) == Max(0, Min(insertIndex, length))

\* The conversion without the compensation for the removed element.
toIndexNoCompensation(safeInsertIndex, fromIndex) == safeInsertIndex

\* safeInsertIndex > fromIndex ? safeInsertIndex - 1 : safeInsertIndex
toIndexOf(safeInsertIndex, fromIndex) ==
    IF safeInsertIndex > fromIndex THEN safeInsertIndex - 1 ELSE safeInsertIndex

\* Reinsertion one place too late.
moveNoteOffByOne(group, fromIndex, toIndex) ==
    LET moved == group[fromIndex + 1]
        rest == SubSeq(group, 1, fromIndex) \o SubSeq(group, fromIndex + 2, Len(group))
        at == Min(toIndex + 1, Len(rest))
    IN  SubSeq(rest, 1, at) \o <<moved>> \o SubSeq(rest, at + 1, Len(rest))

\* reordered = [...currentGroup]; [moved] = reordered.splice(fromIndex, 1);
\* reordered.splice(toIndex, 0, moved); splice takes a start beyond the end
\* of the array as the end, and a negative start as counted from the end.
moveNote(group, fromIndex, toIndex) ==
    LET moved == group[fromIndex + 1]
        rest == SubSeq(group, 1, fromIndex) \o SubSeq(group, fromIndex + 2, Len(group))
        start == IF toIndex < 0 THEN Max(Len(rest) + toIndex, 0) ELSE Min(toIndex, Len(rest))
    IN  SubSeq(rest, 1, start) \o <<moved>> \o SubSeq(rest, start + 1, Len(rest))

\* A batch that rewrites every note of the group.
batchUpdatesAll(reordered) ==
    {[id |-> reordered[i + 1].id, sortIndex |-> i] : i \in 0..(Len(reordered) - 1)}

\* reordered.forEach((item, index) => { if (getSortIndex(item) !== index)
\*   batch.update(doc(db, 'notes', item.id), { uid, sortIndex: index }) })
batchUpdates(reordered) ==
    {[id |-> reordered[i + 1].id, sortIndex |-> i] :
        i \in {k \in 0..(Len(reordered) - 1) : getSortIndex(reordered[k + 1]) # <<k>>}}

\* The same function without the fromIndex === toIndex return.
reorderWithinGroupNoGuard(ordered, activeDragId, targetPinned, insertIndex) ==
    LET currentGroup == filterGroup(ordered, targetPinned)
        fromIndex == findIndex(currentGroup, activeDragId)
        safeInsertIndex == safeInsertIndexOf(insertIndex, Len(currentGroup))
        toIndex == toIndexOf(safeInsertIndex, fromIndex)
    IN  IF activeDragId = NoId THEN [outcome |-> "return", updates |-> {}]
        ELSE IF fromIndex < 0 THEN [outcome |-> "notFound", updates |-> {}]
        ELSE [outcome |-> "batch",
              updates |-> batchUpdates(moveNote(currentGroup, fromIndex, toIndex))]

\* reorderWithinGroup up to batch.commit(): the outcome ("return": no db, user
\* or drag id; "notFound"; "noop": fromIndex === toIndex; "batch": the batch
\* was filled) and the updates put in the batch.  The id 0 is the empty string.
reorderWithinGroup(ordered, activeDragId, targetPinned, insertIndex) ==
    LET currentGroup == filterGroup(ordered, targetPinned)
        fromIndex == findIndex(currentGroup, activeDragId)
        safeInsertIndex == safeInsertIndexOf(insertIndex, Len(currentGroup))
        toIndex == toIndexOf(safeInsertIndex, fromIndex)
    IN  IF activeDragId = NoId THEN [outcome |-> "return", updates |-> {}]
        ELSE IF fromIndex < 0 THEN [outcome |-> "notFound", updates |-> {}]
        ELSE IF fromIndex = toIndex THEN [outcome |-> "noop", updates |-> {}]
        ELSE [outcome |-> "batch",
              updates |-> batchUpdates(moveNote(currentGroup, fromIndex, toIndex))]

\* if (updateCount > 0) await batch.commit()
commitCalled(result) == result.outcome = "batch" /\ result.updates # {}

\* The data of a reorder's update with the server's time stamp added.
reorderFieldsStamped(index) == [uid |-> "user.uid", sortIndex |-> <<index>>, updatedAt |-> MaxTime + 1]

\* { uid: user.uid, sortIndex: index }: the data reorderWithinGroup hands to
\* batch.update
reorderFields(index) == [uid |-> "user.uid", sortIndex |-> <<index>>]

\* update(ref, data) on a document: the fields of data replace the
\* document's. The documents of the model carry no uid field: it is the
\* same for every document of the user's query.
mergeFields(note, data) == [f \in DOMAIN note |-> IF f \in DOMAIN data THEN data[f] ELSE note[f]]

\* The store applying a committed batch: update() changes the named fields
\* of the document and leaves the others.
applyUpdates(arr, updates) ==
    [i \in DOMAIN arr |->
        IF \E u \in updates : u.id = arr[i].id
        THEN mergeFields(arr[i], reorderFields((CHOOSE u \in updates : u.id = arr[i].id).sortIndex))
        ELSE arr[i]]

----------------------------------------------------------------------------
(* Edge indices: the sort index given to a note that enters a group *)

\* sameGroup.reduce((maxValue, note) => ..., maxValue): notes without a
\* finite sortIndex are skipped
RECURSIVE reduceMax(_, _)
reduceMax(sameGroup, maxValue) ==
    IF sameGroup = <<>> THEN maxValue
    ELSE LET noteIndex == getSortIndex(Head(sameGroup))
         IN  reduceMax(Tail(sameGroup),
                       IF noteIndex = Null THEN maxValue ELSE Max(maxValue, noteIndex[1]))

RECURSIVE reduceMin(_, _)
reduceMin(sameGroup, minValue) ==
    IF sameGroup = <<>> THEN minValue
    ELSE LET noteIndex == getSortIndex(Head(sameGroup))
         IN  reduceMin(Tail(sameGroup),
                       IF noteIndex = Null THEN minValue ELSE Min(minValue, noteIndex[1]))

\* The same without the final + 1.
findNextSortIndexNoIncrement(list, pinned) ==
    reduceMax(filterGroup(list, pinned), 0 - 1)

\* The reduce starts from -1, so the result is never below 0.
findNextSortIndex(list, pinned) ==
    LET sameGroup == filterGroup(list, pinned)
        maxIndex == reduceMax(sameGroup, 0 - 1)
    IN  maxIndex + 1

\* The same without the test for an empty group.
findGroupTopIndexNoEmptyTest(list, pinned) ==
    reduceMin(filterGroup(list, pinned), 0) - 1

\* The reduce starts from 0, so the result of a group that is not empty is
\* never above -1.
findGroupTopIndex(list, pinned) ==
    LET sameGroup == filterGroup(list, pinned)
        minIndex == reduceMin(sameGroup, 0)
    IN  IF Len(sameGroup) = 0 THEN 0 ELSE minIndex - 1

findPinnedTopIndex(list) == findGroupTopIndex(list, TRUE)

\* updatedAt: serverTimestamp(), a sentinel the server replaces by its clock.
ServerTimestamp == 0 - 1

\* A pin toggle that keeps the note's sort index.
togglePinFieldsKeepIndex(ordered, note) ==
    [pinned |-> ~note.pinned,
     sortIndex |-> IF getSortIndex(note) = Null THEN 0 ELSE getSortIndex(note)[1],
     updatedAt |-> ServerTimestamp]

\* The fields handleTogglePin hands to updateDoc for the note.
togglePinFields(ordered, note) ==
    LET nextPinned == ~note.pinned
    IN  [pinned |-> nextPinned,
         sortIndex |-> IF nextPinned THEN findPinnedTopIndex(ordered)
                       ELSE findNextSortIndex(ordered, FALSE),
         updatedAt |-> ServerTimestamp]

\* A creation that appends: the index after the unpinned group.
submitCreateFieldsAppend(ordered) ==
    [pinned |-> FALSE, sortIndex |-> findNextSortIndex(ordered, FALSE),
     updatedAt |-> ServerTimestamp]

\* The fields submitCreate hands to addDoc, for a draft whose normalized
\* body is not empty.
submitCreateFields(ordered) ==
    LET nextSortIndex == findGroupTopIndex(ordered, FALSE)
    IN  [pinned |-> FALSE, sortIndex |-> nextSortIndex, updatedAt |-> ServerTimestamp]

\* The document once the server has taken the fields and put its clock's
\* value in place of the sentinel.
stamped(id, fields, now) ==
    [id |-> id, pinned |-> fields.pinned, sortIndex |-> <<fields.sortIndex>>,
     updatedAt |-> IF fields.updatedAt = ServerTimestamp THEN now ELSE fields.updatedAt]

\* The server's clock when a write arrives: not before any timestamp it has
\* given out.
ServerNow(arr) == {t \in 0..(MaxTime + 1) : \A i \in DOMAIN arr : arr[i].updatedAt <= t}

----------------------------------------------------------------------------
(* The store: documents, the queue of dispatched writes, snapshots *)

MaxInitialIndex == 0

\* What the account holds when the app opens: one document per id, the last
\* one pinned or not and the others not, the sortIndex absent on all (written
\* before the field existed) or the same on all; reorders then give the
\* documents different ones.
InitialDocs ==
    {n \in Note : n.updatedAt = 0
                  /\ n.sortIndex \in {Null} \cup {<<v>> : v \in 0..MaxInitialIndex}}

InitialStores ==
    {D \in SUBSET InitialDocs :
        /\ \A i \in Ids : \E n \in D : n.id = i
        /\ \A n, m \in D : n.id = m.id => n = m
        /\ \A n, m \in D : n.sortIndex = m.sortIndex
        /\ \A n \in D : n.pinned => n.id = MaxNotes}

\* snapshot.docs of the query where('uid', '==', user.uid): document order
RECURSIVE inIdOrder(_)
inIdOrder(D) ==
    IF D = {} THEN <<>>
    ELSE LET n == CHOOSE x \in D : \A y \in D : x.id <= y.id
         IN  <<n>> \o inIdOrder(D \ {n})

hasDoc(D, id) == \E n \in D : n.id = id

\* A write reaching a document set.  deleteDoc removes the document; a batch
\* of update() calls fails as a whole when one of its documents is missing.
writeApplies(D, w) == w.kind = "delete" \/ \A u \in w.updates : hasDoc(D, u.id)

applyWrite(D, w) ==
    IF w.kind = "delete" THEN {n \in D : n.id # w.id}
    ELSE IF writeApplies(D, w) THEN Range(applyUpdates(inIdOrder(D), w.updates))
    ELSE D

\* What the snapshot listener is given: the server's documents with the
\* writes still in the queue applied on top.
RECURSIVE localView(_, _)
localView(D, queue) ==
    IF queue = <<>> THEN D ELSE localView(applyWrite(D, Head(queue)), Tail(queue))

\* A batch sent as one write per note.
batchRequestsPerNote(updates) ==
    LET ordered == inIdOrder({[id |-> u.id, pinned |-> FALSE, sortIndex |-> <<u.sortIndex>>,
                               updatedAt |-> 0] : u \in updates})
    IN  [i \in DOMAIN ordered |->
            [kind |-> "batch", id |-> NoId,
             updates |-> {[id |-> ordered[i].id, sortIndex |-> ordered[i].sortIndex[1]]},
             of |-> updates, editId |-> NoId, dragId |-> NoId]]

\* batch = writeBatch(db); batch.update(...) per changed note; batch.commit():
\* one write holding every update of the reorder ("of" remembers the reorder
\* the write belongs to).
batchRequests(updates) ==
    <<[kind |-> "batch", id |-> NoId, updates |-> updates, of |-> updates,
       editId |-> NoId, dragId |-> NoId]>>

----------------------------------------------------------------------------
(* The App component *)

NoError == ""

CrossGroupMessage == "cross-group"

\* getErrorMessage(error) of a failed store call
StoreErrorMessage == "store-error"


hasNote(ordered, id) == \E i \in DOMAIN ordered : ordered[i].id = id

\* orderedNotesById.get(id), for an id that is there
noteById(ordered, id) == ordered[findIndex(ordered, id) + 1]

\* History: what the last step did, for the steps the properties ask about.
\* A release (a drop or the end of a touch) records the dragged note, whether
\* the note dropped on is of the other group (cross), whether an indicator
\* was set at that moment (set) and one of the dragged note's own group (own),
\* whether any indicator was set during the drag (ever) and whether a write
\* was dispatched (wrote); the
\* store's answer to a batch records the number of updates of its reorder.
NoOp ==
    [name |-> "none", drag |-> NoId, cross |-> FALSE, set |-> FALSE, own |-> FALSE,
     ever |-> FALSE, wrote |-> FALSE, size |-> 0]

Release(name, drag, target, wrote) ==
    LET known == drag # NoId /\ hasNote(orderedNotes, drag)
    IN  [name |-> name, drag |-> drag,
         cross |-> known /\ target # Null
                         /\ noteById(orderedNotes, drag).pinned # target[1].pinned,
         set |-> dropIndicator # Null,
         own |-> known /\ dropIndicator # Null
                       /\ dropIndicator[1].pinned = noteById(orderedNotes, drag).pinned,
         ever |-> indicatorEverSet, wrote |-> wrote, size |-> 0]

\* Pointer positions: one number for the pair (clientX, clientY), in half
\* pixels; NaNPoint for the NaN of the initial lastDragFollowerRef.
NaNPoint == 0 - 1

\* useRef({ noteId: '', clientX: 0, clientY: 0 }), useRef({ noteId: '',
\* clientX: NaN, clientY: NaN }), useState(null), no frame requested
FollowerIdle ==
    /\ pendingDragFollowerRef = [noteId |-> NoId, point |-> 0]
    /\ lastDragFollowerRef = [noteId |-> NoId, point |-> NaNPoint]
    /\ dragFollowerAt = 0
    /\ frameCallbacks = 0
    /\ lastArrived = Null

AppInit ==
    /\ docs \in InitialStores
    /\ writeQueue = <<>>
    /\ writeCount = [batch |-> 0, delete |-> 0]
    /\ notes = <<>>
    /\ orderedNotes = <<>>
    /\ isTouchLayout \in BOOLEAN
    /\ editId = NoId
    /\ dragId = NoId
    /\ dragIdRef = NoId
    /\ touchDragId = NoId
    /\ dragMovedId = NoId
    /\ dragFollower = NoId
    /\ dragFollowerRaf = FALSE
    /\ dropIndicator = Null
    /\ dropIndicatorRef = Null
    /\ longPressTimer = NoId
    /\ touchScrollLock = FALSE
    /\ swipeRef = NoId
    /\ errorMessage = NoError
    /\ nativeDrag = NoId
    /\ nativeDropped = FALSE
    /\ nativeOver = Null
    /\ touchOn = NoId
    /\ lastOp = NoOp
    /\ indicatorEverSet = FALSE
    /\ lastTouchEnd = Null
    /\ FollowerIdle
    /\ gesture = Null
    /\ remoteWrites = 0
    /\ ExtraIdle

AppIdle ==
    /\ docs = {}
    /\ writeQueue = <<>>
    /\ writeCount = [batch |-> 0, delete |-> 0]
    /\ notes = <<>>
    /\ orderedNotes = <<>>
    /\ isTouchLayout = FALSE
    /\ editId = NoId
    /\ dragId = NoId
    /\ dragIdRef = NoId
    /\ touchDragId = NoId
    /\ dragMovedId = NoId
    /\ dragFollower = NoId
    /\ dragFollowerRaf = FALSE
    /\ dropIndicator = Null
    /\ dropIndicatorRef = Null
    /\ longPressTimer = NoId
    /\ touchScrollLock = FALSE
    /\ swipeRef = NoId
    /\ errorMessage = NoError
    /\ nativeDrag = NoId
    /\ nativeDropped = FALSE
    /\ nativeOver = Null
    /\ touchOn = NoId
    /\ lastOp = NoOp
    /\ indicatorEverSet = FALSE
    /\ lastTouchEnd = Null
    /\ FollowerIdle
    /\ gesture = Null
    /\ remoteWrites = 0

\* onSnapshot callback: setNotes(nextNotes)
Snapshot ==
    /\ notes # inIdOrder(localView(docs, writeQueue))
    /\ notes' = inIdOrder(localView(docs, writeQueue))
    /\ orderedNotes' = sortNotes(notes')
    /\ lastOp' = NoOp
    /\ UNCHANGED <<storeVars, isTouchLayout, editId, dragVars, swipeRef, errorMessage,
                   browserVars, indicatorEverSet>>

\* clearDragState()
ClearDragState ==
    /\ longPressTimer' = NoId
    /\ touchScrollLock' = FALSE
    /\ dragFollowerRaf' = FALSE
    /\ dropIndicatorRef' = Null
    /\ dragIdRef' = NoId
    /\ dragId' = NoId
    /\ touchDragId' = NoId
    /\ dragMovedId' = NoId
    /\ dragFollower' = NoId
    /\ dropIndicator' = Null

\* dragIdRef.current || dragId || dataTransfer.getData('text/plain') || '';
\* fromData is what getData returns: the dragged id in a drop event, the
\* empty string in dragover, where the drag data store is protected.
activeDragIdOf(fromData) ==
    IF dragIdRef # NoId THEN dragIdRef ELSE IF dragId # NoId THEN dragId ELSE fromData

\* updateDragFollowerPosition(noteId, clientX, clientY): the frame request
\* left pending; validPoint: both coordinates finite and not both <= 0.
rafAfterUpdate(noteId, validPoint) ==
    IF noteId # NoId /\ validPoint THEN TRUE ELSE dragFollowerRaf

\* The requestAnimationFrame callback of updateDragFollowerPosition.
DragFollowerFrame ==
    /\ dragFollowerRaf
    /\ dragFollowerRaf' = FALSE
    /\ lastOp' = NoOp
    /\ UNCHANGED <<storeVars, notes, orderedNotes, isTouchLayout, editId, dragId, dragIdRef, touchDragId,
                   dragMovedId, dragFollower, dropIndicator, dropIndicatorRef, longPressTimer,
                   touchScrollLock, swipeRef, errorMessage, browserVars, indicatorEverSet>>

----------------------------------------------------------------------------
(* Insertion indicator *)

\* noteGroupMetaById.get(id): the note's group, its place in it, the size
noteGroupMeta(ordered, id) ==
    LET group == filterGroup(ordered, noteById(ordered, id).pinned)
    IN  [pinned |-> noteById(ordered, id).pinned, index |-> findIndex(group, id),
         size |-> Len(group)]

\* isInsertBefore || isInsertAfter of some rendered note: a drop spacer is
\* in the list
spacerShown ==
    /\ dropIndicator # Null
    /\ \E i \in DOMAIN orderedNotes :
          LET id == orderedNotes[i].id
              meta == noteGroupMeta(orderedNotes, id)
              ind == dropIndicator[1]
          IN  \/ /\ ind.pinned = meta.pinned
                 /\ ind.index = meta.index
                 /\ (dragId # id \/ meta.index = 0)
              \/ /\ meta.index = meta.size - 1
                 /\ ind.pinned = meta.pinned
                 /\ ind.index = meta.size
                 /\ dragId # id

\* toTargetIndex of setInsertIndicatorByDragBounds
toTargetIndex(insertIndex, length, fromIndex) ==
    LET safeInsert == Max(0, Min(insertIndex, length))
    IN  IF safeInsert > fromIndex THEN safeInsert - 1 ELSE safeInsert

\* toInsertIndex without the step over the dragged note's own place.
toInsertIndexNoCompensation(targetIndex, length, fromIndex) ==
    Max(0, Min(targetIndex, Max(length - 1, 0)))

\* toInsertIndex of setInsertIndicatorByDragBounds
toInsertIndex(targetIndex, length, fromIndex) ==
    LET maxTargetIndex == Max(length - 1, 0)
        safeTarget == Max(0, Min(targetIndex, maxTargetIndex))
    IN  IF safeTarget > fromIndex THEN safeTarget + 1 ELSE safeTarget

\* What the pointer and the layout can make of movingUp, movingDown and of
\* the comparison with the neighbour's middle: no movement, a crossing
\* upwards and one downwards.  (Without a crossing the function returns false
\* as it does without movement; with the probe and the follower disagreeing
\* it does what it does for one of the two directions.)
DragGeometry ==
    {[movingUp |-> FALSE, movingDown |-> FALSE, crosses |-> FALSE],
     [movingUp |-> TRUE, movingDown |-> FALSE, crosses |-> TRUE],
     [movingUp |-> FALSE, movingDown |-> TRUE, crosses |-> TRUE]}

\* setInsertIndicatorByDragBounds(activeDragId, probeClientY): Null when it
\* returns false, else the indicator it sets.  The pointer and layout
\* geometry are inputs: movingUp and movingDown as the function computes them
\* from the probe and the follower, crosses for the comparison of the dragged
\* note's bounds with the middle of the neighbour it looks at.
setInsertIndicatorByDragBounds(ordered, activeDragId, currentIndicator, movingUp, movingDown, crosses) ==
    IF activeDragId = NoId \/ ~hasNote(ordered, activeDragId) THEN Null
    ELSE IF ~movingUp /\ ~movingDown THEN Null
    ELSE
        LET draggingNote == noteById(ordered, activeDragId)
            groupPinned == draggingNote.pinned
            currentGroup == filterGroup(ordered, groupPinned)
            fromIndex == findIndex(currentGroup, activeDragId)
            currentInsertIndex ==
                IF currentIndicator # Null /\ currentIndicator[1].pinned = groupPinned
                THEN currentIndicator[1].index ELSE fromIndex
            currentTargetIndex == toTargetIndex(currentInsertIndex, Len(currentGroup), fromIndex)
            othersLength == Len(currentGroup) - 1
            clampedTargetIndex == Max(0, Min(currentTargetIndex, othersLength))
            nextTargetIndex ==
                IF movingUp /\ clampedTargetIndex > 0
                THEN (IF crosses THEN <<clampedTargetIndex - 1>> ELSE Null)
                ELSE IF movingDown /\ clampedTargetIndex < othersLength
                THEN (IF crosses THEN <<clampedTargetIndex + 1>> ELSE Null)
                ELSE Null
        IN  IF fromIndex < 0 \/ nextTargetIndex = Null THEN Null
            ELSE <<[pinned |-> groupPinned,
                    index |-> toInsertIndex(nextTargetIndex[1], Len(currentGroup), fromIndex)]>>

----------------------------------------------------------------------------
(* Mouse drag and drop *)

\* A reorderWithinGroup call a handler makes: Null for none.
reorderCall(id, pinned, index) == <<[id |-> id, pinned |-> pinned, index |-> index]>>

reorderResult(call) ==
    IF call = Null THEN [outcome |-> "return", updates |-> {}]
    ELSE reorderWithinGroup(orderedNotes, call[1].id, call[1].pinned, call[1].index)

\* The writes in flight and the writes of a run stay within their bounds.
HasRoomFor(kind) ==
    /\ Len(writeQueue) < MaxInFlight
    /\ writeCount[kind] < (IF kind = "batch" THEN MaxBatches ELSE MaxDeletes)

RoomFor(result) == commitCalled(result) => HasRoomFor("batch")

counted(kind) == [writeCount EXCEPT ![kind] = @ + 1]

queueAfter(result) ==
    IF commitCalled(result) THEN writeQueue \o batchRequests(result.updates) ELSE writeQueue

\* The events of a mouse drag as the browser delivers them: dragstart, then
\* drag and dragover while the button is held, then a drop on the element of
\* the last dragover if that handler accepted it (preventDefault), then
\* dragend.

\* onDragStart; interactive: the event target is inside a button, link,
\* input or textarea
handleDragStart(note, interactive) ==
    /\ ~isTouchLayout /\ editId # note.id
    /\ nativeDrag = NoId /\ touchOn = NoId
    /\ IF editId # NoId \/ interactive
       THEN /\ lastOp' = NoOp
            /\ UNCHANGED <<errorMessage, dragIdRef, dragId, dragMovedId, dragFollower,
                           nativeDrag, indicatorEverSet>>
       ELSE /\ errorMessage' = NoError
            /\ dragIdRef' = note.id
            /\ dragId' = note.id
            /\ dragMovedId' = NoId
            /\ dragFollower' = note.id
            /\ nativeDrag' = note.id
            /\ indicatorEverSet' = FALSE
            /\ lastOp' = [NoOp EXCEPT !.name = "handleDragStart", !.drag = note.id]
    /\ nativeOver' = Null
    /\ UNCHANGED <<storeVars, notes, orderedNotes, isTouchLayout, editId, touchDragId, dragFollowerRaf,
                   dropIndicator, dropIndicatorRef, longPressTimer, touchScrollLock, swipeRef,
                   nativeDropped, touchOn>>

\* onDrag, delivered to the dragged note's element
handleDrag(note, validPoint) ==
    /\ nativeDrag = note.id /\ ~nativeDropped
    /\ dragFollowerRaf' =
          IF activeDragIdOf(NoId) = note.id
          THEN rafAfterUpdate(note.id, validPoint) ELSE dragFollowerRaf
    /\ lastOp' = NoOp
    /\ UNCHANGED <<storeVars, notes, orderedNotes, isTouchLayout, editId, dragId, dragIdRef, touchDragId,
                   dragMovedId, dragFollower, dropIndicator, dropIndicatorRef, longPressTimer,
                   touchScrollLock, swipeRef, errorMessage, browserVars, indicatorEverSet>>

\* onDragOver of a note
handleDragOver(note, validPoint, movingUp, movingDown, crosses) ==
    LET activeDragId == activeDragIdOf(NoId)
        indicator ==
            IF activeDragId = NoId \/ activeDragId = note.id THEN Null
            ELSE setInsertIndicatorByDragBounds(orderedNotes, activeDragId, dropIndicatorRef,
                                                movingUp, movingDown, crosses)
    IN  /\ nativeDrag # NoId /\ ~nativeDropped
        /\ dragFollowerRaf' = rafAfterUpdate(activeDragId, validPoint)
        /\ IF indicator # Null
           THEN /\ dropIndicator' = indicator
                /\ dropIndicatorRef' = indicator
                /\ dragMovedId' = activeDragId
                /\ indicatorEverSet' = TRUE
           ELSE UNCHANGED <<dropIndicator, dropIndicatorRef, dragMovedId, indicatorEverSet>>
        /\ nativeOver' = IF activeDragId = NoId \/ activeDragId = note.id THEN Null
                          ELSE <<note.id>>
        /\ lastOp' = NoOp
        /\ UNCHANGED <<storeVars, notes, orderedNotes, isTouchLayout, editId, dragId, dragIdRef, touchDragId,
                       dragFollower, longPressTimer, touchScrollLock, swipeRef, errorMessage,
                       nativeDrag, nativeDropped, touchOn>>

\* onDragOver of a drop spacer
handleDropSpacerOver(validPoint) ==
    LET activeDragId == activeDragIdOf(NoId)
    IN  /\ nativeDrag # NoId /\ ~nativeDropped
        /\ spacerShown
        /\ dragFollowerRaf' = rafAfterUpdate(activeDragId, validPoint)
        /\ dragMovedId' =
              IF activeDragId # NoId /\ dropIndicator # Null THEN activeDragId ELSE dragMovedId
        /\ nativeOver' = IF activeDragId # NoId /\ dropIndicator # Null THEN <<NoId>>
                          ELSE Null
        /\ lastOp' = NoOp
        /\ UNCHANGED <<storeVars, notes, orderedNotes, isTouchLayout, editId, dragId, dragIdRef, touchDragId,
                       dragFollower, dropIndicator, dropIndicatorRef, longPressTimer,
                       touchScrollLock, swipeRef, errorMessage, nativeDrag, nativeDropped,
                       touchOn, indicatorEverSet>>

\* handleDropByIndicator up to its reorderWithinGroup call
handleDropByIndicatorCall(ordered, activeDragId, indicatorSnapshot) ==
    IF activeDragId = NoId THEN Null
    ELSE IF indicatorSnapshot = Null THEN Null
    ELSE IF ~hasNote(ordered, activeDragId) THEN Null
    ELSE IF indicatorSnapshot[1].pinned # noteById(ordered, activeDragId).pinned THEN Null
    ELSE reorderCall(activeDragId, noteById(ordered, activeDragId).pinned,
                     indicatorSnapshot[1].index)

\* onDrop of a drop spacer
handleDropByIndicator ==
    LET activeDragId == activeDragIdOf(nativeDrag)
        result == reorderResult(handleDropByIndicatorCall(orderedNotes, activeDragId,
                                                          dropIndicator))
    IN  /\ nativeDrag # NoId /\ ~nativeDropped
        /\ nativeOver = <<NoId>>
        /\ spacerShown
        /\ RoomFor(result)
        /\ ClearDragState
        /\ errorMessage' = IF result.outcome = "batch" THEN NoError ELSE errorMessage
        /\ writeQueue' = queueAfter(result)
        /\ writeCount' = IF commitCalled(result) THEN counted("batch") ELSE writeCount
        /\ nativeDropped' = TRUE
        /\ lastOp' = Release("handleDropByIndicator", activeDragId, Null,
                             commitCalled(result))
        /\ indicatorEverSet' = FALSE
        /\ UNCHANGED <<docs, notes, orderedNotes, isTouchLayout, editId, swipeRef, nativeDrag, nativeOver,
                       touchOn>>

\* handleDrop taking the indicator whatever its group.
handleDropDecisionAnyIndicator(ordered, activeDragId, indicatorSnapshot, targetNote) ==
    IF activeDragId = NoId THEN [crossGroup |-> FALSE, call |-> Null]
    ELSE IF indicatorSnapshot # Null /\ hasNote(ordered, activeDragId)
    THEN [crossGroup |-> FALSE,
          call |-> reorderCall(activeDragId, noteById(ordered, activeDragId).pinned,
                               indicatorSnapshot[1].index)]
    ELSE [crossGroup |-> FALSE, call |-> Null]

\* handleDrop without the test of the two notes' groups.
handleDropDecisionNoGroupTest(ordered, activeDragId, indicatorSnapshot, targetNote) ==
    IF activeDragId = NoId THEN [crossGroup |-> FALSE, call |-> Null]
    ELSE IF /\ indicatorSnapshot # Null
            /\ hasNote(ordered, activeDragId)
            /\ indicatorSnapshot[1].pinned = noteById(ordered, activeDragId).pinned
    THEN [crossGroup |-> FALSE,
          call |-> reorderCall(activeDragId, noteById(ordered, activeDragId).pinned,
                               indicatorSnapshot[1].index)]
    ELSE IF activeDragId = targetNote.id THEN [crossGroup |-> FALSE, call |-> Null]
    ELSE IF ~hasNote(ordered, activeDragId) THEN [crossGroup |-> FALSE, call |-> Null]
    ELSE
        LET targetPinned == targetNote.pinned
            currentGroup == filterGroup(ordered, targetPinned)
            insertIndex == findIndex(currentGroup, targetNote.id)
        IN  IF insertIndex < 0 THEN [crossGroup |-> FALSE, call |-> Null]
            ELSE [crossGroup |-> FALSE,
                  call |-> reorderCall(activeDragId, targetPinned, insertIndex)]

\* handleDrop up to its reorderWithinGroup call: whether it sets the
\* cross-group message, and the call it makes
handleDropDecision(ordered, activeDragId, indicatorSnapshot, targetNote) ==
    IF activeDragId = NoId THEN [crossGroup |-> FALSE, call |-> Null]
    ELSE IF /\ indicatorSnapshot # Null
            /\ hasNote(ordered, activeDragId)
            /\ indicatorSnapshot[1].pinned = noteById(ordered, activeDragId).pinned
    THEN [crossGroup |-> FALSE,
          call |-> reorderCall(activeDragId, noteById(ordered, activeDragId).pinned,
                               indicatorSnapshot[1].index)]
    ELSE IF activeDragId = targetNote.id THEN [crossGroup |-> FALSE, call |-> Null]
    ELSE IF ~hasNote(ordered, activeDragId) THEN [crossGroup |-> FALSE, call |-> Null]
    ELSE IF noteById(ordered, activeDragId).pinned # targetNote.pinned
    THEN [crossGroup |-> TRUE, call |-> Null]
    ELSE
        LET targetPinned == targetNote.pinned
            currentGroup == filterGroup(ordered, targetPinned)
            atTarget == findIndex(currentGroup, targetNote.id)
            insertIndex ==
                IF indicatorSnapshot # Null /\ indicatorSnapshot[1].pinned = targetPinned
                THEN indicatorSnapshot[1].index ELSE atTarget
        IN  IF insertIndex < 0 THEN [crossGroup |-> FALSE, call |-> Null]
            ELSE [crossGroup |-> FALSE,
                  call |-> reorderCall(activeDragId, targetPinned, insertIndex)]

\* onDrop of a note
handleDrop(targetNote) ==
    LET activeDragId == activeDragIdOf(nativeDrag)
        decision == handleDropDecision(orderedNotes, activeDragId, dropIndicator, targetNote)
        result == reorderResult(decision.call)
    IN  /\ nativeDrag # NoId /\ ~nativeDropped
        /\ nativeOver = <<targetNote.id>>
        /\ RoomFor(result)
        /\ ClearDragState
        /\ errorMessage' =
              IF decision.crossGroup THEN CrossGroupMessage
              ELSE IF result.outcome = "batch" THEN NoError ELSE errorMessage
        /\ writeQueue' = queueAfter(result)
        /\ writeCount' = IF commitCalled(result) THEN counted("batch") ELSE writeCount
        /\ nativeDropped' = TRUE
        /\ lastOp' = Release("handleDrop", activeDragId, <<targetNote>>,
                             commitCalled(result))
        /\ indicatorEverSet' = FALSE
        /\ UNCHANGED <<docs, notes, orderedNotes, isTouchLayout, editId, swipeRef, nativeDrag, nativeOver,
                       touchOn>>

\* onDragEnd = clearDragState, delivered when the dragged note's element is
\* still in the list; the drag is over either way
handleDragEnd ==
    /\ nativeDrag # NoId
    /\ IF hasNote(orderedNotes, nativeDrag) THEN ClearDragState ELSE UNCHANGED dragVars
    /\ nativeDrag' = NoId
    /\ nativeDropped' = FALSE
    /\ nativeOver' = Null
    /\ lastOp' = NoOp
    /\ indicatorEverSet' = FALSE
    /\ UNCHANGED <<storeVars, notes, orderedNotes, isTouchLayout, editId, swipeRef, errorMessage, touchOn>>

----------------------------------------------------------------------------
(* Touch: swipe and long-press drag *)

SWIPE_TRIGGER_PX == 72
TOUCH_DRAG_MOVE_THRESHOLD_PX == 10
TOUCH_DRAG_ACTIVATE_MOVE_PX == 8

\* The finger's displacement <<deltaX, deltaY>> from where the touch began,
\* in pixels.  While moving: short of every threshold, past the activation
\* distance only, past the move threshold.  At the end: short of every
\* threshold, a swipe to either side, and a slanted one.
TouchMoveDeltas == {<<0, 5>>, <<0, 9>>, <<0, 12>>}
TouchEndDeltas == {<<0, 5>>, <<80, 0>>, <<0 - 80, 0>>, <<80, 70>>}

Abs(x) == IF x < 0 THEN 0 - x ELSE x

\* The direction test with a ratio of 1.
belowDirectionRatioUnscaled(absDeltaX, absDeltaY) == absDeltaX < absDeltaY

\* absDeltaX < absDeltaY * SWIPE_DIRECTION_RATIO, the ratio being 1.25 = 5/4
belowDirectionRatio(absDeltaX, absDeltaY) == 4 * absDeltaX < 5 * absDeltaY

\* Math.hypot(deltaX, deltaY) >= TOUCH_DRAG_ACTIVATE_MOVE_PX
movedEnough(deltaX, deltaY) ==
    deltaX * deltaX + deltaY * deltaY
        >= TOUCH_DRAG_ACTIVATE_MOVE_PX * TOUCH_DRAG_ACTIVATE_MOVE_PX

\* touchDragId || dragIdRef.current
activeTouchDragIdOf == IF touchDragId # NoId THEN touchDragId ELSE dragIdRef

\* A finger is on a note whose element is in the list.
TouchDelivered == touchOn # NoId /\ hasNote(orderedNotes, touchOn)

deleteRequest(id) ==
    [kind |-> "delete", id |-> id, updates |-> {}, of |-> {}, editId |-> editId,
     dragId |-> dragId]

\* onTouchStart of a note, one finger (touch input is taken on the touch
\* layout only)
handleTouchStart(note, interactive) ==
    /\ isTouchLayout
    /\ touchOn = NoId /\ nativeDrag = NoId
    /\ touchOn' = note.id
    /\ IF ~isTouchLayout \/ editId # NoId \/ interactive
       THEN /\ lastOp' = NoOp
            /\ UNCHANGED <<swipeRef, longPressTimer, indicatorEverSet>>
       ELSE /\ swipeRef' = note.id
            /\ longPressTimer' = note.id
            /\ indicatorEverSet' = FALSE
            /\ lastOp' = [NoOp EXCEPT !.name = "handleTouchStart", !.drag = note.id]
    /\ UNCHANGED <<storeVars, notes, orderedNotes, isTouchLayout, editId, dragId, dragIdRef, touchDragId,
                   dragMovedId, dragFollower, dragFollowerRaf, dropIndicator, dropIndicatorRef,
                   touchScrollLock, errorMessage, nativeDrag, nativeDropped, nativeOver>>

\* The setTimeout callback of handleTouchStart, LONG_PRESS_DRAG_MS after it
\* (the editId it tests is the one handleTouchStart saw: empty)
LongPressTimeout ==
    /\ longPressTimer # NoId
    /\ longPressTimer' = NoId
    /\ IF swipeRef # longPressTimer
       THEN UNCHANGED <<touchScrollLock, dragIdRef, dragId, touchDragId, dragMovedId,
                        dragFollower>>
       ELSE /\ touchScrollLock' = TRUE
            /\ dragIdRef' = longPressTimer
            /\ dragId' = longPressTimer
            /\ touchDragId' = longPressTimer
            /\ dragMovedId' = NoId
            /\ dragFollower' = longPressTimer
    /\ lastOp' = NoOp
    /\ UNCHANGED <<storeVars, notes, orderedNotes, isTouchLayout, editId, dragFollowerRaf, dropIndicator,
                   dropIndicatorRef, swipeRef, errorMessage, browserVars, indicatorEverSet>>

\* onTouchMove of the note the finger went down on
handleTouchMove(deltaX, deltaY, validPoint, movingUp, movingDown, crosses) ==
    LET activeTouchDragId == activeTouchDragIdOf
        returnsEarly == ~isTouchLayout \/ editId # NoId \/ swipeRef # touchOn
        dragging == ~returnsEarly /\ activeTouchDragId # NoId /\ swipeRef = activeTouchDragId
        hasActivatedDragMove ==
            dragMovedId = activeTouchDragId \/ movedEnough(deltaX, deltaY)
        indicator ==
            IF dragging /\ hasActivatedDragMove
            THEN setInsertIndicatorByDragBounds(orderedNotes, activeTouchDragId,
                                                dropIndicatorRef, movingUp, movingDown, crosses)
            ELSE Null
    IN  /\ TouchDelivered
        /\ dragFollowerRaf' =
              IF dragging THEN rafAfterUpdate(activeTouchDragId, validPoint)
              ELSE dragFollowerRaf
        /\ IF dragging /\ ~hasActivatedDragMove
           THEN /\ dropIndicatorRef' = Null
                /\ dropIndicator' = Null
                /\ UNCHANGED <<dragMovedId, indicatorEverSet>>
           ELSE IF indicator # Null
           THEN /\ dropIndicatorRef' = indicator
                /\ dropIndicator' = indicator
                /\ dragMovedId' = activeTouchDragId
                /\ indicatorEverSet' = TRUE
           ELSE UNCHANGED <<dropIndicatorRef, dropIndicator, dragMovedId, indicatorEverSet>>
        /\ longPressTimer' =
              IF /\ ~returnsEarly /\ ~dragging
                 /\ \/ Abs(deltaX) > TOUCH_DRAG_MOVE_THRESHOLD_PX
                    \/ Abs(deltaY) > TOUCH_DRAG_MOVE_THRESHOLD_PX
              THEN NoId ELSE longPressTimer
        /\ lastOp' = NoOp
        /\ UNCHANGED <<storeVars, notes, orderedNotes, isTouchLayout, editId, dragId, dragIdRef, touchDragId,
                       dragFollower, touchScrollLock, swipeRef, errorMessage, browserVars>>

\* The insert index handleTouchEnd falls back to: the head of the group.
touchEndInsertIndexAtHead(ordered, activeTouchDragId, indicator) ==
    LET draggingNote == noteById(ordered, activeTouchDragId)
    IN  IF indicator # Null /\ indicator[1].pinned = draggingNote.pinned
        THEN indicator[1].index
        ELSE 0

\* The insert index handleTouchEnd passes to reorderWithinGroup
touchEndInsertIndex(ordered, activeTouchDragId, indicator) ==
    LET draggingNote == noteById(ordered, activeTouchDragId)
    IN  IF indicator # Null /\ indicator[1].pinned = draggingNote.pinned
        THEN indicator[1].index
        ELSE findIndex(filterGroup(ordered, draggingNote.pinned), activeTouchDragId)

\* The release is taken for a swipe, a drag under way or not.
touchEndSwipesInDrag(returnsEarly, dragging, deltaX, deltaY) ==
    /\ ~returnsEarly /\ swipeRef = touchOn
    /\ ~(Abs(deltaX) < SWIPE_TRIGGER_PX)
    /\ ~belowDirectionRatio(Abs(deltaX), Abs(deltaY))

\* handleTouchEnd gets as far as its swipe test and the release passes it:
\* no early return, no drag under way (that branch returns first), the swipe
\* session is the note's, and the displacement is past both thresholds.
touchEndSwipes(returnsEarly, dragging, deltaX, deltaY) ==
    /\ ~returnsEarly /\ ~dragging /\ swipeRef = touchOn
    /\ ~(Abs(deltaX) < SWIPE_TRIGGER_PX)
    /\ ~belowDirectionRatio(Abs(deltaX), Abs(deltaY))

\* onTouchEnd of the note the finger went down on; ok: the answer to
\* window.confirm when the swipe asks to delete
handleTouchEnd(deltaX, deltaY, ok) ==
    LET noteId == touchOn
        activeTouchDragId == activeTouchDragIdOf
        returnsEarly == ~isTouchLayout \/ editId # NoId
        dragging == ~returnsEarly /\ activeTouchDragId # NoId
        call ==
            IF dragging /\ hasNote(orderedNotes, activeTouchDragId)
            THEN LET insertIndex ==
                         touchEndInsertIndex(orderedNotes, activeTouchDragId, dropIndicator)
                 IN  IF insertIndex >= 0
                     THEN reorderCall(activeTouchDragId,
                                      noteById(orderedNotes, activeTouchDragId).pinned,
                                      insertIndex)
                     ELSE Null
            ELSE Null
        result == reorderResult(call)
        swiped == touchEndSwipes(returnsEarly, dragging, deltaX, deltaY)
        edits == swiped /\ deltaX > 0
        deletes == swiped /\ ~(deltaX > 0) /\ ok
    IN  /\ TouchDelivered
        /\ RoomFor(result)
        /\ deletes => HasRoomFor("delete")
        /\ IF returnsEarly \/ dragging
           THEN ClearDragState
           ELSE /\ longPressTimer' = NoId
                /\ UNCHANGED <<touchScrollLock, dragFollowerRaf, dropIndicatorRef, dragIdRef,
                               dragId, touchDragId, dragMovedId, dragFollower, dropIndicator>>
        /\ swipeRef' = NoId
        /\ editId' = IF edits THEN noteId ELSE editId
        /\ errorMessage' =
              IF result.outcome = "batch" \/ deletes THEN NoError ELSE errorMessage
        /\ writeQueue' =
              IF deletes THEN Append(writeQueue, deleteRequest(noteId)) ELSE queueAfter(result)
        /\ writeCount' =
              IF deletes THEN counted("delete")
              ELSE IF commitCalled(result) THEN counted("batch") ELSE writeCount
        /\ touchOn' = NoId
        /\ lastOp' = Release("handleTouchEnd", activeTouchDragId, Null,
                             commitCalled(result) \/ deletes)
        /\ indicatorEverSet' = FALSE
        /\ UNCHANGED <<docs, notes, orderedNotes, isTouchLayout, nativeDrag, nativeDropped, nativeOver>>

\* onTouchCancel: clearDragState(); clearSwipeState()
handleTouchCancel ==
    /\ TouchDelivered
    /\ ClearDragState
    /\ swipeRef' = NoId
    /\ touchOn' = NoId
    /\ lastOp' = [NoOp EXCEPT !.name = "handleTouchCancel"]
    /\ indicatorEverSet' = FALSE
    /\ UNCHANGED <<storeVars, notes, orderedNotes, isTouchLayout, editId, errorMessage, nativeDrag,
                   nativeDropped, nativeOver>>

\* The finger lifts from a note whose element a snapshot has removed: no
\* handler of the list receives the event.
TouchLost ==
    /\ touchOn # NoId /\ ~hasNote(orderedNotes, touchOn)
    /\ touchOn' = NoId
    /\ lastOp' = NoOp
    /\ UNCHANGED <<storeVars, notes, orderedNotes, isTouchLayout, editId, dragVars, swipeRef, errorMessage,
                   nativeDrag, nativeDropped, nativeOver, indicatorEverSet>>

----------------------------------------------------------------------------
(* Buttons *)

\* No drag or touch is under way: a click can be made.
PointerFree == nativeDrag = NoId /\ touchOn = NoId

\* The edit button of a note: startEdit(note)
startEdit(note) ==
    /\ PointerFree
    /\ ~isTouchLayout /\ editId # note.id
    /\ editId' = note.id
    /\ lastOp' = NoOp
    /\ UNCHANGED <<storeVars, notes, orderedNotes, isTouchLayout, dragVars, swipeRef, errorMessage,
                   browserVars, indicatorEverSet>>

\* The cancel button, or Escape, of the note being edited: cancelEdit()
cancelEdit ==
    /\ PointerFree
    /\ editId # NoId /\ hasNote(orderedNotes, editId)
    /\ editId' = NoId
    /\ lastOp' = NoOp
    /\ UNCHANGED <<storeVars, notes, orderedNotes, isTouchLayout, dragVars, swipeRef, errorMessage,
                   browserVars, indicatorEverSet>>

\* The delete button of a note: handleDelete(note.id) up to its await
handleDelete(note, ok) ==
    /\ PointerFree
    /\ ~isTouchLayout
    /\ ok => HasRoomFor("delete")
    /\ errorMessage' = IF ok THEN NoError ELSE errorMessage
    /\ writeQueue' = IF ok THEN Append(writeQueue, deleteRequest(note.id)) ELSE writeQueue
    /\ writeCount' = IF ok THEN counted("delete") ELSE writeCount
    /\ lastOp' = NoOp
    /\ UNCHANGED <<docs, notes, orderedNotes, isTouchLayout, editId, dragVars, swipeRef, browserVars,
                   indicatorEverSet>>

----------------------------------------------------------------------------
(* The store answering the oldest write in flight *)

\* The write is applied and its promise resolves: the rest of the handler
\* that awaited it runs (handleDelete's, with the editId and dragId it saw).
WriteResolved ==
    LET w == Head(writeQueue)
    IN  /\ writeQueue # <<>>
        /\ writeApplies(docs, w)
        /\ docs' = applyWrite(docs, w)
        /\ writeQueue' = Tail(writeQueue)
        /\ IF w.kind = "delete"
           THEN /\ editId' = IF w.editId = w.id THEN NoId ELSE editId
                /\ IF w.dragId = w.id THEN ClearDragState ELSE UNCHANGED dragVars
                /\ swipeRef' = NoId
                /\ lastOp' = NoOp
           ELSE /\ lastOp' = [NoOp EXCEPT !.name = "batchResolved", !.size = Cardinality(w.of)]
                /\ UNCHANGED <<editId, dragVars, swipeRef>>
        /\ UNCHANGED <<writeCount, notes, orderedNotes, isTouchLayout, errorMessage, browserVars,
                       indicatorEverSet>>

\* The write is refused (a missing document, the rules, the network): none
\* of it is applied and the promise rejects: setErrorMessage(getErrorMessage(error))
WriteRejected ==
    LET w == Head(writeQueue)
    IN  /\ writeQueue # <<>>
        /\ writeQueue' = Tail(writeQueue)
        /\ errorMessage' = StoreErrorMessage
        /\ IF w.kind = "delete"
           THEN lastOp' = NoOp
           ELSE lastOp' = [NoOp EXCEPT !.name = "batchRejected", !.size = Cardinality(w.of)]
        /\ UNCHANGED <<docs, writeCount, notes, orderedNotes, isTouchLayout, editId, dragVars, swipeRef,
                       browserVars, indicatorEverSet>>

----------------------------------------------------------------------------
(* Spec: the signed-in App over the store *)

\* The notes as the list renders them
Rendered == Range(orderedNotes)

Init == AppInit /\ SortIdle /\ ReorderIdle /\ IndexIdle

\* The ordering, reconciliation and index harnesses stay idle, and no touch
\* release is recorded.
Idle == UNCHANGED <<sortVars, reorderVars, indexVars, lastTouchEnd, followerVars, staleVars, extraVars>>

Next ==
    \/ Snapshot /\ Idle
    \/ DragFollowerFrame /\ Idle
    \/ \E note \in Rendered, interactive \in BOOLEAN :
          handleDragStart(note, interactive) /\ Idle
    \/ \E note \in Rendered, validPoint \in BOOLEAN : handleDrag(note, validPoint) /\ Idle
    \/ \E note \in Rendered, validPoint \in BOOLEAN, g \in DragGeometry :
          handleDragOver(note, validPoint, g.movingUp, g.movingDown, g.crosses) /\ Idle
    \/ \E validPoint \in BOOLEAN : handleDropSpacerOver(validPoint) /\ Idle
    \/ handleDropByIndicator /\ Idle
    \/ \E targetNote \in Rendered : handleDrop(targetNote) /\ Idle
    \/ handleDragEnd /\ Idle
    \/ \E note \in Rendered, interactive \in BOOLEAN :
          handleTouchStart(note, interactive) /\ Idle
    \/ LongPressTimeout /\ Idle
    \/ \E delta \in TouchMoveDeltas, validPoint \in BOOLEAN, g \in DragGeometry :
          handleTouchMove(delta[1], delta[2], validPoint, g.movingUp, g.movingDown,
                          g.crosses) /\ Idle
    \/ \E delta \in TouchEndDeltas, ok \in BOOLEAN : handleTouchEnd(delta[1], delta[2], ok) /\ Idle
    \/ handleTouchCancel /\ Idle
    \/ TouchLost /\ Idle
    \/ \E note \in Rendered : startEdit(note) /\ Idle
    \/ cancelEdit /\ Idle
    \/ \E note \in Rendered, ok \in BOOLEAN : handleDelete(note, ok) /\ Idle
    \/ WriteResolved /\ Idle
    \/ WriteRejected /\ Idle

Spec == Init /\ [][Next]_vars

----------------------------------------------------------------------------
(* SpecSwipe: the App on the touch layout, where the mouse handlers and    *)
(* buttons of the desktop layout are not offered; the finger is lifted at  *)
(* displacements on both sides of SWIPE_TRIGGER_PX and of the direction    *)
(* ratio, and each release is recorded with what it found.                 *)

SwipeDeltaX == {0 - 80, 0 - 72, 0 - 71, 71, 72, 80}
SwipeDeltaY == {0, 10, 57, 58, 64, 65}

SwipeInit ==
    /\ AppInit
    /\ isTouchLayout
    /\ \A n \in docs : ~n.pinned /\ n.sortIndex = Null
    /\ SortIdle
    /\ ReorderIdle
    /\ IndexIdle

\* A step that is not a touch release
SwipeOther == UNCHANGED <<sortVars, reorderVars, indexVars, followerVars, staleVars, extraVars>> /\ lastTouchEnd' = Null

\* handleTouchEnd with the release recorded: the displacement, the answer to
\* the confirmation, the note, the session the release found and the state
\* it started from
SwipeRelease(deltaX, deltaY, ok) ==
    /\ handleTouchEnd(deltaX, deltaY, ok)
    /\ lastTouchEnd' =
          <<[deltaX |-> deltaX, deltaY |-> deltaY, ok |-> ok, noteId |-> touchOn,
             armed |-> swipeRef = touchOn, dragging |-> activeTouchDragIdOf # NoId,
             editId |-> editId, writeQueue |-> writeQueue]>>
    /\ UNCHANGED <<sortVars, reorderVars, indexVars, followerVars, staleVars, extraVars>>

SwipeNext ==
    \/ Snapshot /\ SwipeOther
    \/ \E note \in Rendered, interactive \in BOOLEAN :
          handleTouchStart(note, interactive) /\ SwipeOther
    \/ LongPressTimeout /\ SwipeOther
    \/ \E delta \in TouchMoveDeltas, validPoint \in BOOLEAN, g \in DragGeometry :
          handleTouchMove(delta[1], delta[2], validPoint, g.movingUp, g.movingDown,
                          g.crosses) /\ SwipeOther
    \/ \E deltaX \in SwipeDeltaX, deltaY \in SwipeDeltaY, ok \in BOOLEAN :
          SwipeRelease(deltaX, deltaY, ok)
    \/ handleTouchCancel /\ SwipeOther
    \/ TouchLost /\ SwipeOther
    \/ cancelEdit /\ SwipeOther
    \/ WriteResolved /\ SwipeOther
    \/ WriteRejected /\ SwipeOther

SpecSwipe == SwipeInit /\ [][SwipeNext]_vars

----------------------------------------------------------------------------
(* SpecStale: the App, and a second client signed in to the same account   *)
(* (the same code on another device) that deletes a note or toggles its    *)
(* pin while this one drags.  The store starts with a pinned note, so that *)
(* both groups have members, and with notes that have no sort index yet.   *)

MaxRemote == 1

StaleInit ==
    /\ AppInit
    /\ \E n \in docs : n.pinned
    /\ \A n \in docs : n.sortIndex = Null
    /\ SortIdle
    /\ ReorderIdle
    /\ IndexIdle

staleRest == <<sortVars, reorderVars, indexVars, lastTouchEnd, followerVars, extraVars>>

\* The drag under way: a released one is remembered for one step only
underWay(g) == IF g # Null /\ g[1].released THEN Null ELSE g

\* A step in which no drag starts or ends and no snapshot arrives
StaleKeep == gesture' = underWay(gesture) /\ UNCHANGED <<staleRest, remoteWrites>>

\* A step that ends the drag under way
StaleEnd ==
    /\ gesture' = IF underWay(gesture) = Null THEN Null
                  ELSE <<[gesture[1] EXCEPT !.released = TRUE]>>
    /\ UNCHANGED <<staleRest, remoteWrites>>

gestureOf(id) ==
    <<[id |-> id, pinned |-> noteById(orderedNotes, id).pinned, deleted |-> FALSE,
       moved |-> FALSE, released |-> FALSE]>>

\* handleDragStart, the drag it starts recorded
StaleDragStart(note, interactive) ==
    /\ handleDragStart(note, interactive)
    /\ gesture' = IF nativeDrag' = note.id THEN gestureOf(note.id) ELSE underWay(gesture)
    /\ UNCHANGED <<staleRest, remoteWrites>>

\* The long-press callback, the touch drag it starts recorded
StaleLongPress ==
    /\ LongPressTimeout
    /\ gesture' = IF touchDragId' = NoId THEN underWay(gesture)
                  ELSE IF hasNote(orderedNotes, touchDragId') THEN gestureOf(touchDragId')
                  ELSE Null
    /\ UNCHANGED <<staleRest, remoteWrites>>

\* The snapshot callback, and what its notes say of the dragged note: gone,
\* or in the other group than at the start of the drag
StaleSnapshot ==
    /\ Snapshot
    /\ gesture' =
          IF underWay(gesture) = Null THEN Null
          ELSE LET g == gesture[1]
                   there == hasNote(orderedNotes', g.id)
               IN  <<[g EXCEPT !.deleted = ~there,
                               !.moved = there /\ noteById(orderedNotes', g.id).pinned # g.pinned]>>
    /\ UNCHANGED <<staleRest, remoteWrites>>

remoteRest ==
    <<writeQueue, writeCount, notes, orderedNotes, isTouchLayout, editId, dragVars, swipeRef,
      errorMessage, browserVars, indicatorEverSet, staleRest>>

\* The second client's handleDelete, answered by the server
RemoteDelete(id) ==
    /\ remoteWrites < MaxRemote
    /\ hasDoc(docs, id)
    /\ docs' = {n \in docs : n.id # id}
    /\ remoteWrites' = remoteWrites + 1
    /\ lastOp' = NoOp
    /\ gesture' = underWay(gesture)
    /\ UNCHANGED remoteRest

\* The second client's handleTogglePin, answered by the server; its
\* orderedNotes are the server's documents
RemoteTogglePin(id, now) ==
    /\ remoteWrites < MaxRemote
    /\ hasDoc(docs, id)
    /\ LET note == CHOOSE n \in docs : n.id = id
           fields == togglePinFields(sortNotes(inIdOrder(docs)), note)
       IN  docs' = (docs \ {note}) \cup {stamped(id, fields, now)}
    /\ remoteWrites' = remoteWrites + 1
    /\ lastOp' = NoOp
    /\ gesture' = underWay(gesture)
    /\ UNCHANGED remoteRest

\* The server's clock at the second client's write: the earliest value it can
\* have
RemoteNow(arr) == CHOOSE t \in ServerNow(arr) : \A u \in ServerNow(arr) : t <= u

StaleNext ==
    \/ StaleSnapshot
    \/ \E note \in Rendered, interactive \in BOOLEAN : StaleDragStart(note, interactive)
    \/ \E note \in Rendered, validPoint \in BOOLEAN, g \in DragGeometry :
          handleDragOver(note, validPoint, g.movingUp, g.movingDown, g.crosses) /\ StaleKeep
    \/ \E validPoint \in BOOLEAN : handleDropSpacerOver(validPoint) /\ StaleKeep
    \/ handleDropByIndicator /\ StaleEnd
    \/ \E targetNote \in Rendered : handleDrop(targetNote) /\ StaleEnd
    \/ handleDragEnd /\ StaleEnd
    \/ \E note \in Rendered, interactive \in BOOLEAN :
          handleTouchStart(note, interactive) /\ StaleKeep
    \/ StaleLongPress
    \/ \E delta \in TouchMoveDeltas, validPoint \in BOOLEAN, g \in DragGeometry :
          handleTouchMove(delta[1], delta[2], validPoint, g.movingUp, g.movingDown,
                          g.crosses) /\ StaleKeep
    \/ \E delta \in TouchEndDeltas, ok \in BOOLEAN :
          handleTouchEnd(delta[1], delta[2], ok) /\ StaleEnd
    \/ handleTouchCancel /\ StaleEnd
    \/ TouchLost /\ StaleEnd
    \/ WriteResolved /\ StaleKeep
    \/ WriteRejected /\ StaleKeep
    \/ \E id \in Ids : RemoteDelete(id)
    \/ \E id \in Ids : RemoteTogglePin(id, RemoteNow(inIdOrder(docs)))

SpecStale == StaleInit /\ [][StaleNext]_vars

----------------------------------------------------------------------------
(* SpecFollower: the drag follower.  handleDragStart and the long-press    *)
(* callback set it, updateDragFollowerPosition is called by handleDrag,    *)
(* handleDragOver, handleDropSpacerOver and handleTouchMove with the id    *)
(* they hold and the pointer's position, the browser runs the requested    *)
(* frame callback, clearDragState clears; here in any order.               *)

MaxPoint == 4

FollowerPoints == 1..MaxPoint

\* Math.round of a position in half pixels: a half rounds up
roundPoint(point) == ((point + 1) \div 2) * 2

\* An update that leaves the pending position alone while a frame is
\* requested.
pendingAfterUpdateKeepFirst(noteId, point, validPoint) ==
    IF noteId = NoId \/ ~validPoint \/ dragFollowerRaf THEN pendingDragFollowerRef
    ELSE [noteId |-> noteId, point |-> point]

\* pendingDragFollowerRef.current = { noteId, clientX, clientY }, after the
\* three early returns
pendingAfterUpdate(noteId, point, validPoint) ==
    IF noteId = NoId \/ ~validPoint THEN pendingDragFollowerRef
    ELSE [noteId |-> noteId, point |-> point]

\* A request made whether or not one is pending.
requestsFrameUnguarded(noteId, validPoint) == noteId # NoId /\ validPoint

\* updateDragFollowerPosition reaches window.requestAnimationFrame
requestsFrame(noteId, validPoint) == noteId # NoId /\ validPoint /\ ~dragFollowerRaf

FollowerInit ==
    /\ AppIdle
    /\ ExtraIdle
    /\ SortIdle
    /\ ReorderIdle
    /\ IndexIdle

followerRest ==
    <<sortVars, reorderVars, indexVars, storeVars, notes, orderedNotes, isTouchLayout, editId, dragId,
      dragIdRef, touchDragId, dragMovedId, dropIndicator, dropIndicatorRef, longPressTimer,
      touchScrollLock, swipeRef, errorMessage, browserVars, lastOp, indicatorEverSet,
      lastTouchEnd, staleVars, extraVars>>

\* setDragFollower({...}), lastDragFollowerRef.current = {...},
\* pendingDragFollowerRef.current = {...} of handleDragStart and of the
\* long-press callback: the follower starts at the pointer
FollowerStart(noteId, point) ==
    /\ dragFollower' = noteId
    /\ dragFollowerAt' = point
    /\ lastDragFollowerRef' = [noteId |-> noteId, point |-> roundPoint(point)]
    /\ pendingDragFollowerRef' = [noteId |-> noteId, point |-> point]
    /\ lastArrived' = <<[op |-> "start", noteId |-> noteId, point |-> point, coalesced |-> FALSE]>>
    /\ UNCHANGED <<dragFollowerRaf, frameCallbacks, followerRest>>

\* updateDragFollowerPosition(noteId, clientX, clientY)
FollowerUpdate(noteId, point, validPoint) ==
    /\ pendingDragFollowerRef' = pendingAfterUpdate(noteId, point, validPoint)
    /\ dragFollowerRaf' = rafAfterUpdate(noteId, validPoint)
    /\ frameCallbacks' = IF requestsFrame(noteId, validPoint) THEN frameCallbacks + 1
                         ELSE frameCallbacks
    /\ lastArrived' =
          IF noteId = NoId \/ ~validPoint
          THEN (IF lastArrived = Null THEN Null
                ELSE <<[lastArrived[1] EXCEPT !.op = "ignored"]>>)
          ELSE <<[op |-> "update", noteId |-> noteId, point |-> point,
                  coalesced |-> dragFollowerRaf]>>
    /\ UNCHANGED <<dragFollower, dragFollowerAt, lastDragFollowerRef, followerRest>>

\* The callback handed to requestAnimationFrame
FollowerFrame ==
    LET pending == pendingDragFollowerRef
        rounded == roundPoint(pending.point)
        last == lastDragFollowerRef
        same == last.noteId = pending.noteId /\ last.point = rounded
        applies == ~same /\ dragFollower # NoId /\ dragFollower = pending.noteId
    IN  /\ frameCallbacks > 0
        /\ frameCallbacks' = frameCallbacks - 1
        /\ dragFollowerRaf' = FALSE
        /\ lastDragFollowerRef' =
              IF applies THEN [noteId |-> pending.noteId, point |-> rounded] ELSE last
        /\ dragFollowerAt' = IF applies THEN rounded ELSE dragFollowerAt
        /\ lastArrived' = IF lastArrived = Null THEN Null
                          ELSE <<[lastArrived[1] EXCEPT !.op = "frame"]>>
        /\ UNCHANGED <<dragFollower, pendingDragFollowerRef, followerRest>>

\* clearDragState(), the part on the follower
FollowerClear ==
    /\ frameCallbacks' = IF dragFollowerRaf THEN frameCallbacks - 1 ELSE frameCallbacks
    /\ dragFollowerRaf' = FALSE
    /\ pendingDragFollowerRef' = [noteId |-> NoId, point |-> 0]
    /\ lastDragFollowerRef' = [noteId |-> NoId, point |-> NaNPoint]
    /\ dragFollower' = NoId
    /\ dragFollowerAt' = 0
    /\ lastArrived' = Null
    /\ UNCHANGED followerRest

FollowerNext ==
    \/ \E noteId \in Ids, point \in FollowerPoints : FollowerStart(noteId, point)
    \/ \E noteId \in Ids \cup {NoId}, point \in FollowerPoints, validPoint \in BOOLEAN :
          FollowerUpdate(noteId, point, validPoint)
    \/ FollowerFrame
    \/ FollowerClear

SpecFollower == FollowerInit /\ [][FollowerNext]_vars

----------------------------------------------------------------------------
(* SpecSort: sortNotes on every bounded sequence of notes with distinct ids *)

DistinctIds(s) == \A i, j \in DOMAIN s : i # j => s[i].id # s[j].id

NoteSeqs == UNION {{s \in [1..n -> Note] : DistinctIds(s)} : n \in 0..MaxNotes}

SortInit ==
    /\ items \in NoteSeqs
    /\ sorted = <<>>
    /\ sortPhase = "input"
    /\ ReorderIdle
    /\ IndexIdle
    /\ AppIdle
    /\ ExtraIdle

\* orderedNotes = sortNotes(notes)
SortApply ==
    /\ sortPhase = "input"
    /\ sorted' = sortNotes(items)
    /\ sortPhase' = "sorted"
    /\ UNCHANGED <<items, reorderVars, indexVars, appVars>>

\* sortNotes applied to its own output
SortAgain ==
    /\ sortPhase = "sorted"
    /\ sorted' = sortNotes(sorted)
    /\ sortPhase' = "resorted"
    /\ UNCHANGED <<items, reorderVars, indexVars, appVars>>

SortNext == SortApply \/ SortAgain

SpecSort == SortInit /\ [][SortNext]_vars

----------------------------------------------------------------------------
(* SpecReorder: one reorderWithinGroup call on every bounded note set, and *)
(* its batch written back.                                                 *)

\* Note arrays as a snapshot delivers them: one document per id, in id order.
SnapshotSeqs == UNION {{s \in [1..n -> Note] : \A i \in 1..n : s[i].id = i} : n \in 1..MaxNotes}

\* insertion positions handed to reorderWithinGroup, some out of range
InsertPositions == (0 - 1)..(MaxNotes + 1)

ReorderInit ==
    /\ rNotes \in SnapshotSeqs
    /\ rCall = <<>>
    /\ rResult = <<>>
    /\ rAfter = <<>>
    /\ rPhase = "input"
    /\ SortIdle
    /\ IndexIdle
    /\ AppIdle
    /\ ExtraIdle

\* reorderWithinGroup(id, Boolean(draggingNote.pinned), pos), as its callers
\* call it for a note of orderedNotes
ReorderCall ==
    /\ rPhase = "input"
    /\ \E i \in DOMAIN rNotes, pos \in InsertPositions :
          /\ rCall' = [id |-> rNotes[i].id, pinned |-> rNotes[i].pinned, pos |-> pos]
          /\ rResult' = reorderWithinGroup(sortNotes(rNotes), rNotes[i].id, rNotes[i].pinned, pos)
    /\ rPhase' = "called"
    /\ UNCHANGED <<rNotes, rAfter, sortVars, indexVars, appVars>>

\* batch.commit() succeeds and the next snapshot replaces notes
ReorderWriteBack ==
    /\ rPhase = "called"
    /\ rAfter' = IF commitCalled(rResult) THEN applyUpdates(rNotes, rResult.updates) ELSE rNotes
    /\ rPhase' = "written"
    /\ UNCHANGED <<rNotes, rCall, rResult, sortVars, indexVars, appVars>>

ReorderNext == ReorderCall \/ ReorderWriteBack

SpecReorder == ReorderInit /\ [][ReorderNext]_vars

----------------------------------------------------------------------------
(* SpecIndex: one call of findNextSortIndex, findGroupTopIndex,            *)
(* handleTogglePin or submitCreate on every bounded note set, and the      *)
(* document written read back.                                             *)

\* Note arrays as a snapshot delivers them: documents of distinct ids, in
\* document order; none for a new account.
IndexInputs == {s \in NoteSeqs : \A i, j \in DOMAIN s : i < j => s[i].id < s[j].id}

IndexInit ==
    /\ iNotes \in IndexInputs
    /\ iCall = <<>>
    /\ iResult = <<>>
    /\ iAfter = <<>>
    /\ iPhase = "input"
    /\ SortIdle
    /\ ReorderIdle
    /\ AppIdle
    /\ ExtraIdle

IndexCalled(call, result) ==
    /\ iPhase = "input"
    /\ iCall' = call
    /\ iResult' = result
    /\ iPhase' = "called"
    /\ UNCHANGED <<iNotes, iAfter, sortVars, reorderVars, appVars>>

\* findNextSortIndex(orderedNotes, pinned)
FindNextSortIndexCall ==
    \E pinned \in BOOLEAN :
        IndexCalled([op |-> "findNextSortIndex", pinned |-> pinned, id |-> NoId],
                    <<findNextSortIndex(sortNotes(iNotes), pinned)>>)

\* findGroupTopIndex(orderedNotes, pinned)
FindGroupTopIndexCall ==
    \E pinned \in BOOLEAN :
        IndexCalled([op |-> "findGroupTopIndex", pinned |-> pinned, id |-> NoId],
                    <<findGroupTopIndex(sortNotes(iNotes), pinned)>>)

\* handleTogglePin(note) for a note of the list
TogglePinCall ==
    \E i \in DOMAIN iNotes :
        IndexCalled([op |-> "handleTogglePin", pinned |-> iNotes[i].pinned, id |-> iNotes[i].id],
                    <<togglePinFields(sortNotes(iNotes), iNotes[i])>>)

\* submitCreate() with a draft that is blank or not; the store names the
\* new document
SubmitCreateCall ==
    \E blank \in BOOLEAN, id \in Ids \ {iNotes[i].id : i \in DOMAIN iNotes} :
        IndexCalled([op |-> "submitCreate", pinned |-> FALSE, id |-> id],
                    IF blank THEN <<>> ELSE <<submitCreateFields(sortNotes(iNotes))>>)

\* The array with the written document put in, in document order.
writtenBack(arr, document) ==
    inIdOrder({arr[i] : i \in {j \in DOMAIN arr : arr[j].id # document.id}} \cup {document})

\* updateDoc or addDoc succeeds and the next snapshot replaces notes
IndexWriteBack ==
    /\ iPhase = "called"
    /\ iCall.op \in {"handleTogglePin", "submitCreate"}
    /\ iResult # <<>>
    /\ \E now \in ServerNow(iNotes) :
          iAfter' = writtenBack(iNotes, stamped(iCall.id, iResult[1], now))
    /\ iPhase' = "written"
    /\ UNCHANGED <<iNotes, iCall, iResult, sortVars, reorderVars, appVars>>

IndexNext ==
    \/ FindNextSortIndexCall
    \/ FindGroupTopIndexCall
    \/ TogglePinCall
    \/ SubmitCreateCall
    \/ IndexWriteBack

SpecIndex == IndexInit /\ [][IndexNext]_vars

----------------------------------------------------------------------------
(* SpecBounds: one evaluation of setInsertIndicatorByDragBounds on every   *)
(* bounded note set, for every indicator a drag can have left and every    *)
(* outcome of the geometry tests.                                          *)

\* Note arrays as a snapshot delivers them, with few sort indices and one
\* timestamp: the evaluation reads the order and the groups only.
BoundsInputs ==
    {s \in IndexInputs :
        \A i \in DOMAIN s : s[i].updatedAt = 0 /\ s[i].sortIndex \in {Null, <<0>>, <<1>>}}

\* dropIndicatorRef.current: null, or an indicator set earlier in the drag,
\* possibly when the group was another size
BoundsIndicators == {Null} \cup {<<[pinned |-> b, index |-> k]>> : b \in BOOLEAN, k \in 0..MaxNotes}

BoundsInit ==
    /\ bNotes \in BoundsInputs
    /\ bCall = <<>>
    /\ bResult = <<>>
    /\ bPhase = "input"
    /\ SortIdle
    /\ ReorderIdle
    /\ IndexIdle
    /\ AppIdle
    /\ BodyIdle
    /\ WorkerIdle
    /\ FormIdle

\* setInsertIndicatorByDragBounds(activeDragId, probeClientY) on one move or
\* dragover event
BoundsCall ==
    /\ bPhase = "input"
    /\ \E id \in Ids, indicator \in BoundsIndicators, g \in [movingUp : BOOLEAN, movingDown : BOOLEAN, crosses : BOOLEAN] :
          /\ bCall' = [id |-> id, indicator |-> indicator, movingUp |-> g.movingUp,
                       movingDown |-> g.movingDown, crosses |-> g.crosses]
          /\ bResult' = setInsertIndicatorByDragBounds(sortNotes(bNotes), id, indicator,
                                                       g.movingUp, g.movingDown, g.crosses)
    /\ bPhase' = "called"
    /\ UNCHANGED <<bNotes, sortVars, reorderVars, indexVars, storeVars, notes, orderedNotes,
                   isTouchLayout, editId, dragVars, swipeRef, errorMessage, browserVars, lastOp,
                   indicatorEverSet, lastTouchEnd, followerVars, staleVars, bodyVars, workerVars, formVars>>

BoundsNext == BoundsCall

SpecBounds == BoundsInit /\ [][BoundsNext]_vars

----------------------------------------------------------------------------
(* SpecBody: normalizeBody on every bounded string, and on its own output  *)

MaxLen == 5

BodyChars == {"a", " ", "\t", "\n", "\r"}

\* "  hello \n\n world  \n"
ExampleBody ==
    <<" ", " ", "h", "e", "l", "l", "o", " ", "\n", "\n", " ", "w", "o", "r", "l", "d", " ", " ", "\n">>

BodyInputs == UNION {[1..n -> BodyChars] : n \in 0..MaxLen} \cup {ExampleBody}

BodyInit ==
    /\ nValue \in BodyInputs
    /\ nOnce = <<>>
    /\ nTwice = <<>>
    /\ nPhase = "input"
    /\ SortIdle
    /\ ReorderIdle
    /\ IndexIdle
    /\ AppIdle
    /\ BoundsIdle
    /\ WorkerIdle
    /\ FormIdle

bodyRest ==
    <<nValue, sortVars, reorderVars, indexVars, storeVars, notes, orderedNotes, isTouchLayout,
      editId, dragVars, swipeRef, errorMessage, browserVars, lastOp, indicatorEverSet,
      lastTouchEnd, followerVars, staleVars, boundsVars, workerVars, formVars>>

\* normalizeBody(draft)
BodyNormalize ==
    /\ nPhase = "input"
    /\ nOnce' = normalizeBody(nValue)
    /\ nPhase' = "once"
    /\ UNCHANGED <<nTwice, bodyRest>>

\* normalizeBody applied to its own output
BodyNormalizeAgain ==
    /\ nPhase = "once"
    /\ nTwice' = normalizeBody(nOnce)
    /\ nPhase' = "twice"
    /\ UNCHANGED <<nOnce, bodyRest>>

BodyNext == BodyNormalize \/ BodyNormalizeAgain

SpecBody == BodyInit /\ [][BodyNext]_vars

----------------------------------------------------------------------------
(* SpecWorker: the service worker of public/sw.js, from its installation   *)
(* on: install, activate, fetch events, and the cache.put calls the fetch  *)
(* handler leaves running.                                                 *)

CACHE_VERSION == "memome-pwa-v1"

\* The shell list without '/index.html'.
APP_SHELL_FILES_NoIndex == {"/", "/manifest.webmanifest", "/icon-192.svg", "/icon-512.svg"}

APP_SHELL_FILES == {"/", "/index.html", "/manifest.webmanifest", "/icon-192.svg", "/icon-512.svg"}

\* A cache an earlier version of the worker left behind
OldCache == "memome-pwa-v0"

\* The URLs pages ask for: the shell's entry points and a built asset that is
\* not in the shell list
RequestUrls == {"/", "/index.html", "/assets/index.js"}

\* Fetch events: method, origin and mode as the handler tests them
Requests ==
    [url : RequestUrls, get : BOOLEAN, sameOrigin : BOOLEAN, navigate : BOOLEAN]

\* A response: where it was produced and for which URL
responseOf(source, url) == [source |-> source, url |-> url]

\* caches.open(CACHE_VERSION).then((cache) => cache.addAll(files))
cacheAddAll(cache, files) ==
    {e \in cache : ~(e.cache = CACHE_VERSION /\ e.key \in files)}
        \cup {[cache |-> CACHE_VERSION, key |-> f, response |-> responseOf("install", f)] : f \in files}

\* caches.open(CACHE_VERSION).then((cache) => cache.put(key, response))
cachePut(cache, key, response) ==
    {e \in cache : ~(e.cache = CACHE_VERSION /\ e.key = key)}
        \cup {[cache |-> CACHE_VERSION, key |-> key, response |-> response]}

\* cache.match(key) on the cache CACHE_VERSION: Null for undefined
cacheMatch(cache, key) ==
    IF \E e \in cache : e.cache = CACHE_VERSION /\ e.key = key
    THEN <<(CHOOSE e \in cache : e.cache = CACHE_VERSION /\ e.key = key).response>>
    ELSE Null

\* caches.match(request): the caches are searched in the order of their
\* creation, the old one first
cachesMatch(cache, key) ==
    IF \E e \in cache : e.cache = OldCache /\ e.key = key
    THEN <<(CHOOSE e \in cache : e.cache = OldCache /\ e.key = key).response>>
    ELSE cacheMatch(cache, key)

\* The navigation branch answering a failed fetch with the entry of the
\* requested URL.
navigateResponseByUrl(cache, request, networkOk) ==
    IF networkOk THEN <<responseOf("network", request.url)>>
    ELSE cacheMatch(cache, request.url)

\* The navigation branch of the fetch listener: what respondWith resolves
\* to, Null for undefined (the page gets a network error)
navigateResponse(cache, request, networkOk) ==
    IF networkOk THEN <<responseOf("network", request.url)>>
    ELSE cacheMatch(cache, "/index.html")

\* The other same-origin GET requests: the cached response when there is
\* one, else the network's
assetResponse(cache, request, networkOk) ==
    IF cachesMatch(cache, request.url) # Null THEN cachesMatch(cache, request.url)
    ELSE IF networkOk THEN <<responseOf("network", request.url)>>
    ELSE Null

workerRest ==
    <<sortVars, reorderVars, indexVars, storeVars, notes, orderedNotes, isTouchLayout, editId,
      dragVars, swipeRef, errorMessage, browserVars, lastOp, indicatorEverSet, lastTouchEnd,
      followerVars, staleVars, boundsVars, bodyVars, formVars>>

\* The worker script has been registered and parsed; an earlier version may
\* have left a cache
WorkerInit ==
    /\ swState = "parsed"
    /\ swCache \in {{}, {[cache |-> OldCache, key |-> "/index.html",
                          response |-> responseOf("old", "/index.html")]},
                    {[cache |-> OldCache, key |-> "/assets/index.js",
                          response |-> responseOf("old", "/assets/index.js")]}}
    /\ swPuts = {}
    /\ swLast = <<>>
    /\ SortIdle
    /\ ReorderIdle
    /\ IndexIdle
    /\ AppIdle
    /\ BoundsIdle
    /\ BodyIdle
    /\ FormIdle

\* install listener: addAll stores every file or none; when it fails the
\* worker is discarded
SwInstall(ok) ==
    /\ swState = "parsed"
    /\ swState' = IF ok THEN "installed" ELSE "redundant"
    /\ swCache' = IF ok THEN cacheAddAll(swCache, APP_SHELL_FILES) ELSE swCache
    /\ UNCHANGED <<swPuts, swLast, workerRest>>

\* activate listener (after skipWaiting): the other caches are deleted
SwActivate ==
    /\ swState = "installed"
    /\ swState' = "activated"
    /\ swCache' = {e \in swCache : e.cache = CACHE_VERSION}
    /\ UNCHANGED <<swPuts, swLast, workerRest>>

\* fetch listener, for a request the browser hands to the active worker;
\* networkOk: fetch(request) resolves
SwFetch(request, networkOk) ==
    /\ swState = "activated"
    /\ LET handled == request.get /\ request.sameOrigin
           response ==
               IF ~handled THEN Null
               ELSE IF request.navigate THEN navigateResponse(swCache, request, networkOk)
               ELSE assetResponse(swCache, request, networkOk)
           fetched == handled /\ networkOk
                        /\ (request.navigate \/ cachesMatch(swCache, request.url) = Null)
           key == IF request.navigate THEN "/index.html" ELSE request.url
       IN  /\ swLast' = <<[request |-> request, networkOk |-> networkOk, handled |-> handled,
                           response |-> response,
                           indexEntry |-> cacheMatch(swCache, "/index.html")]>>
           /\ swPuts' = IF fetched
                        THEN swPuts \cup {[key |-> key, response |-> responseOf("network", request.url)]}
                        ELSE swPuts
    /\ UNCHANGED <<swState, swCache, workerRest>>

\* A cache.put left running by the fetch listener is carried out
SwPutDone ==
    /\ \E p \in swPuts :
          /\ swCache' = cachePut(swCache, p.key, p.response)
          /\ swPuts' = swPuts \ {p}
    /\ UNCHANGED <<swState, swLast, workerRest>>

WorkerNext ==
    \/ \E ok \in BOOLEAN : SwInstall(ok)
    \/ SwActivate
    \/ \E request \in Requests, networkOk \in BOOLEAN : SwFetch(request, networkOk)
    \/ SwPutDone

SpecWorker == WorkerInit /\ [][WorkerNext]_vars

\* ---------------------------------------------------------------------------
\* SpecForm: the composer, the edit form, the pin and delete controls and the
\* account buttons of App, over the persistence and auth calls whose promise
\* is still open. A note is [id, body, pinned]; the order of the notes is the
\* matter of the other specifications.
\* ---------------------------------------------------------------------------

\* The most calls that are open at once.
MaxPending == 2

\* The most notes the user has.
MaxFormNotes == 1

FormIds == 1..MaxFormNotes

\* What the user can have typed into a textarea.
FormBodies == {<<" ", "\n">>, <<"a", " ">>}

\* Error messages are sequences of phrases, so that String.includes is the
\* search for a phrase; an error without a string message has hasMessage FALSE.
firebaseError(message) == [hasMessage |-> TRUE, message |-> message]

FormErrors == {firebaseError(<<"FirebaseError: ", "Missing or insufficient permissions", ".">>), firebaseError(<<"FirebaseError: ", "The query requires an index", ". You can create it here">>), firebaseError(<<"Firebase: Error (auth/network-request-failed).">>), [hasMessage |-> FALSE, message |-> <<>>]}

NoFormError == [hasMessage |-> FALSE, message |-> <<"none">>]

includes(message, phrase) == \E i \in DOMAIN message : message[i] = phrase

\* The texts of getErrorMessage and of onAuthStateChanged, in English.
UnexpectedErrorText == <<"An unexpected error occurred.">>

PermissionHintText == <<"Firestore permission error. Check the rules in the Firebase console.">>

IndexHintText == <<"A Firestore index is needed. Create it from the error link in the Firebase console.">>

NotAllowedText == <<"This account cannot be used. Log in with an allowed account.">>

\* getErrorMessage(error), answering the message whatever it is
getErrorMessageRaw(error) == IF error.hasMessage THEN error.message ELSE UnexpectedErrorText

\* getErrorMessage(error)
getErrorMessage(error) ==
    LET message == IF error.hasMessage THEN error.message ELSE UnexpectedErrorText
    IN  IF includes(message, "Missing or insufficient permissions")
        THEN PermissionHintText
        ELSE IF includes(message, "The query requires an index")
             THEN IndexHintText
             ELSE message

\* `if (!body) return` of submitCreate and handleUpdate, never returning
emptyBodyNever(body) == FALSE

\* `if (!body) return` of submitCreate and handleUpdate
emptyBody(body) == body = <<>>

\* `if (!ok) return` of handleDelete, going on whatever the answer
confirmedAlways(ok) == TRUE

\* `if (!ok) return` of handleDelete
confirmed(ok) == ok

canSubmitDraft == Len(normalizeBody(fDraft)) > 0

canSaveEdit == Len(normalizeBody(fEditBody)) > 0

formRequest(kind, id, body, pinned, previousEditId, previousEditBody) == [kind |-> kind, id |-> id, body |-> body, pinned |-> pinned, editId |-> previousEditId, editBody |-> previousEditBody]

authRequest(kind) == formRequest(kind, 0, <<>>, FALSE, 0, <<>>)

formLast(name, kind, id, ok, error) == [name |-> name, kind |-> kind, id |-> id, ok |-> ok, error |-> error]

formStep(name, id) == formLast(name, "", id, TRUE, NoFormError)

formIds(set) == {d.id : d \in set}

formNote(set, id) == CHOOSE d \in set : d.id = id

\* One write applied to a set of documents: what the store does with it, and
\* what the client's cache shows of it while it is open.
formWrite(set, req) ==
    CASE req.kind = "create" -> set \cup {[id |-> req.id, body |-> req.body, pinned |-> FALSE]}
      [] req.kind = "edit" -> {IF d.id = req.id THEN [d EXCEPT !.body = req.body] ELSE d : d \in set}
      [] req.kind = "pin" -> {IF d.id = req.id THEN [d EXCEPT !.pinned = req.pinned] ELSE d : d \in set}
      [] req.kind = "delete" -> {d \in set : d.id # req.id}
      [] OTHER -> set

RECURSIVE formView(_, _)
\* The documents the snapshot listener is given: the server's, with the open
\* writes on top in the order they were made.
formView(set, queue) ==
    IF queue = <<>> THEN set ELSE formView(formWrite(set, Head(queue)), Tail(queue))

removeAt(queue, i) == SubSeq(queue, 1, i - 1) \o SubSeq(queue, i + 1, Len(queue))

\* The id addDoc gives the new document.
freeIds == FormIds \ (formIds(fDocs) \cup {fQueue[i].id : i \in DOMAIN fQueue})

newId == CHOOSE id \in freeIds : \A other \in freeIds : id <= other

FormInit ==
    /\ fUser \in BOOLEAN
    /\ fDocs \in {{}, {[id |-> 1, body |-> <<"a">>, pinned |-> FALSE]}}
    /\ fNotes = {}
    /\ fDraft = <<>>
    /\ fEditId = 0
    /\ fEditBody = <<>>
    /\ fAuthPending = FALSE
    /\ fError = <<>>
    /\ fQueue = <<>>
    /\ fLast = formStep("other", 0)
    /\ SortIdle
    /\ ReorderIdle
    /\ IndexIdle
    /\ AppIdle
    /\ BoundsIdle
    /\ BodyIdle
    /\ WorkerIdle

formRest ==
    <<sortVars, reorderVars, indexVars, storeVars, notes, orderedNotes, isTouchLayout, editId,
      dragVars, swipeRef, errorMessage, browserVars, lastOp, indicatorEverSet, lastTouchEnd,
      followerVars, staleVars, boundsVars, bodyVars, workerVars>>

\* onChange of the composer's textarea
SetDraft(value) ==
    /\ fUser
    /\ fDraft # value
    /\ fDraft' = value
    /\ fLast' = formStep("other", 0)
    /\ UNCHANGED <<fUser, fDocs, fNotes, fEditId, fEditBody, fAuthPending, fError, fQueue, formRest>>

\* submitCreate()
submitCreate(name) ==
    LET body == normalizeBody(fDraft)
    IN  /\ fUser
        /\ IF emptyBody(body)
           THEN /\ fLast' = formLast(name, "create", 0, FALSE, NoFormError)
                /\ UNCHANGED <<fDraft, fError, fQueue>>
           ELSE /\ Len(fQueue) < MaxPending
                /\ freeIds # {}
                /\ fError' = <<>>
                /\ fDraft' = <<>>
                /\ fQueue' = Append(fQueue, formRequest("create", newId, body, FALSE, 0, <<>>))
                /\ fLast' = formLast(name, "create", newId, TRUE, NoFormError)
        /\ UNCHANGED <<fUser, fDocs, fNotes, fEditId, fEditBody, fAuthPending, formRest>>

\* handleCreate(event): the composer's form is submitted by its button
handleCreate ==
    /\ canSubmitDraft
    /\ submitCreate("handleCreate")

\* handleDraftKeyDown(event) with the submit shortcut, not composing
handleDraftKeyDown == submitCreate("handleDraftKeyDown")

\* The edit textarea and its buttons are drawn in the row of the note edited.
formEditing == fUser /\ fEditId # 0 /\ fEditId \in formIds(fNotes)

\* startEdit(note) from the edit button, or from handleTouchEnd on a swipe to
\* the right, which does nothing while a note is edited
FormStartEdit(id, swipe) ==
    /\ fUser
    /\ id \in formIds(fNotes)
    /\ IF swipe THEN fEditId = 0 ELSE fEditId # id
    /\ fEditId' = id
    /\ fEditBody' = formNote(fNotes, id).body
    /\ fLast' = formStep("other", 0)
    /\ UNCHANGED <<fUser, fDocs, fNotes, fDraft, fAuthPending, fError, fQueue, formRest>>

\* onChange of the edit textarea
SetEditBody(value) ==
    /\ formEditing
    /\ fEditBody # value
    /\ fEditBody' = value
    /\ fLast' = formStep("other", 0)
    /\ UNCHANGED <<fUser, fDocs, fNotes, fDraft, fEditId, fAuthPending, fError, fQueue, formRest>>

\* cancelEdit() from the cancel button or the Escape key
FormCancelEdit ==
    /\ formEditing
    /\ fEditId' = 0
    /\ fEditBody' = <<>>
    /\ fLast' = formStep("other", 0)
    /\ UNCHANGED <<fUser, fDocs, fNotes, fDraft, fAuthPending, fError, fQueue, formRest>>

\* handleUpdate(noteId, rawBody) up to the await
handleUpdate(name, noteId, rawBody) ==
    LET body == normalizeBody(rawBody)
    IN  IF ~fUser \/ noteId = 0 \/ emptyBody(body)
        THEN /\ fLast' = formLast(name, "edit", noteId, FALSE, NoFormError)
             /\ UNCHANGED <<fUser, fDocs, fNotes, fDraft, fEditId, fEditBody, fAuthPending, fError, fQueue, formRest>>
        ELSE /\ Len(fQueue) < MaxPending
             /\ fEditId' = 0
             /\ fEditBody' = <<>>
             /\ fError' = <<>>
             /\ fQueue' = Append(fQueue, formRequest("edit", noteId, body, FALSE, fEditId, fEditBody))
             /\ fLast' = formLast(name, "edit", noteId, TRUE, NoFormError)
             /\ UNCHANGED <<fUser, fDocs, fNotes, fDraft, fAuthPending, formRest>>

\* onClick of the save button: handleUpdate(note.id, editBody)
SaveEdit ==
    /\ formEditing
    /\ canSaveEdit
    /\ handleUpdate("saveButton", fEditId, fEditBody)

\* handleEditKeyDown(event, noteId) with the submit shortcut, not composing
handleEditKeyDown ==
    /\ formEditing
    /\ handleUpdate("handleEditKeyDown", fEditId, fEditBody)

\* handleTogglePin(note) up to the await; the pin button is in the row of a
\* note that is not edited
handleTogglePin(id) ==
    /\ fUser
    /\ id \in formIds(fNotes)
    /\ fEditId # id
    /\ Len(fQueue) < MaxPending
    /\ fError' = <<>>
    /\ fQueue' = Append(fQueue, formRequest("pin", id, <<>>, ~formNote(fNotes, id).pinned, 0, <<>>))
    /\ fLast' = formStep("other", 0)
    /\ UNCHANGED <<fUser, fDocs, fNotes, fDraft, fEditId, fEditBody, fAuthPending, formRest>>

\* handleDelete(id) up to the await, from the delete button or from
\* handleTouchEnd on a swipe to the left; ok is the answer to window.confirm
FormHandleDelete(id, ok, swipe) ==
    /\ fUser
    /\ id \in formIds(fNotes)
    /\ swipe => fEditId = 0
    /\ IF ~confirmed(ok)
       THEN UNCHANGED <<fError, fQueue>>
       ELSE /\ Len(fQueue) < MaxPending
            /\ fError' = <<>>
            /\ fQueue' = Append(fQueue, formRequest("delete", id, <<>>, FALSE, fEditId, <<>>))
    /\ fLast' = formLast(IF swipe THEN "handleTouchEnd" ELSE "handleDelete", "delete", id, ok, NoFormError)
    /\ UNCHANGED <<fUser, fDocs, fNotes, fDraft, fEditId, fEditBody, fAuthPending, formRest>>

\* handleSignIn() up to the await
handleSignIn ==
    /\ ~fUser
    /\ ~fAuthPending
    /\ Len(fQueue) < MaxPending
    /\ fError' = <<>>
    /\ fAuthPending' = TRUE
    /\ fQueue' = Append(fQueue, authRequest("signIn"))
    /\ fLast' = formStep("other", 0)
    /\ UNCHANGED <<fUser, fDocs, fNotes, fDraft, fEditId, fEditBody, formRest>>

\* handleSignOut() up to the await
handleSignOut ==
    /\ fUser
    /\ ~fAuthPending
    /\ Len(fQueue) < MaxPending
    /\ fError' = <<>>
    /\ fAuthPending' = TRUE
    /\ fQueue' = Append(fQueue, authRequest("signOut"))
    /\ fLast' = formStep("other", 0)
    /\ UNCHANGED <<fUser, fDocs, fNotes, fDraft, fEditId, fEditBody, formRest>>

\* The success callback of onSnapshot
FormSnapshot ==
    /\ fUser
    /\ fNotes # formView(fDocs, fQueue)
    /\ fNotes' = formView(fDocs, fQueue)
    /\ fLast' = formStep("other", 0)
    /\ UNCHANGED <<fUser, fDocs, fDraft, fEditId, fEditBody, fAuthPending, fError, fQueue, formRest>>

\* The error callback of onSnapshot
FormSnapshotError(error) ==
    /\ fUser
    /\ fError' = getErrorMessage(error)
    /\ fLast' = formLast("onSnapshotError", "snapshot", 0, FALSE, error)
    /\ UNCHANGED <<fUser, fDocs, fNotes, fDraft, fEditId, fEditBody, fAuthPending, fQueue, formRest>>

\* The store can accept a write of a document that is there, or a creation.
acceptable(req) == req.kind \in {"edit", "pin"} => req.id \in formIds(fDocs)

\* A call's promise is fulfilled: the rest of its handler after the await,
\* and for the auth calls the callback of onAuthStateChanged with the effect
\* on [user]. allowed is isAllowedUser(nextUser).
FormResolved(i, allowed) ==
    LET req == fQueue[i]
        rest == removeAt(fQueue, i)
    IN  /\ acceptable(req)
        /\ allowed \/ req.kind = "signIn"
        /\ fDocs' = formWrite(fDocs, req)
        /\ fLast' = formStep("other", 0)
        /\ CASE req.kind = "delete" ->
                  /\ IF req.editId = req.id
                     THEN fEditId' = 0 /\ fEditBody' = <<>>
                     ELSE UNCHANGED <<fEditId, fEditBody>>
                  /\ fQueue' = rest
                  /\ UNCHANGED <<fUser, fNotes, fAuthPending, fError>>
             [] req.kind = "signIn" ->
                  /\ fAuthPending' = FALSE
                  /\ IF allowed
                     THEN /\ fUser' = TRUE
                          /\ fQueue' = rest
                          /\ UNCHANGED <<fNotes, fError>>
                     ELSE /\ fUser' = FALSE
                          /\ fNotes' = {}
                          /\ fError' = NotAllowedText
                          /\ fQueue' = Append(rest, authRequest("signOutNotAllowed"))
                  /\ UNCHANGED <<fEditId, fEditBody>>
             [] req.kind = "signOut" ->
                  /\ fAuthPending' = FALSE
                  /\ fUser' = FALSE
                  /\ fNotes' = {}
                  /\ fQueue' = rest
                  /\ UNCHANGED <<fEditId, fEditBody, fError>>
             [] OTHER ->
                  /\ fQueue' = rest
                  /\ UNCHANGED <<fUser, fNotes, fEditId, fEditBody, fAuthPending, fError>>
        /\ UNCHANGED <<fDraft, formRest>>

\* The draft after a failed creation, put back whatever the box holds.
draftAfterFailureAlways(current, body) == body

\* setDraft((current) => (current ? current : body)) in the catch of addDoc
draftAfterFailure(current, body) == IF current # <<>> THEN current ELSE body

\* A call's promise is rejected with error: the catch of its handler
FormRejected(i, error) ==
    LET req == fQueue[i]
    IN  /\ fQueue' = removeAt(fQueue, i)
        /\ fLast' = formLast("rejected", req.kind, req.id, FALSE, error)
        /\ fError' = IF req.kind = "signOutNotAllowed" THEN fError ELSE getErrorMessage(error)
        /\ fDraft' = IF req.kind = "create" THEN draftAfterFailure(fDraft, req.body) ELSE fDraft
        /\ IF req.kind = "edit" /\ req.editId = req.id
           THEN /\ fEditId' = req.id
                /\ fEditBody' = IF req.editBody # <<>> THEN req.editBody ELSE req.body
           ELSE UNCHANGED <<fEditId, fEditBody>>
        /\ fAuthPending' = IF req.kind \in {"signIn", "signOut"} THEN FALSE ELSE fAuthPending
        /\ UNCHANGED <<fUser, fDocs, fNotes, formRest>>

FormNext ==
    \/ \E value \in FormBodies : SetDraft(value)
    \/ handleCreate
    \/ handleDraftKeyDown
    \/ \E id \in FormIds, swipe \in BOOLEAN : FormStartEdit(id, swipe)
    \/ \E value \in FormBodies : SetEditBody(value)
    \/ FormCancelEdit
    \/ SaveEdit
    \/ handleEditKeyDown
    \/ \E id \in FormIds : handleTogglePin(id)
    \/ \E id \in FormIds, ok \in BOOLEAN, swipe \in BOOLEAN : FormHandleDelete(id, ok, swipe)
    \/ handleSignIn
    \/ handleSignOut
    \/ FormSnapshot
    \/ \E error \in FormErrors : FormSnapshotError(error)
    \/ \E i \in DOMAIN fQueue, allowed \in BOOLEAN : FormResolved(i, allowed)
    \/ \E i \in DOMAIN fQueue, error \in FormErrors : FormRejected(i, error)

SpecForm == FormInit /\ [][FormNext]_vars

----------------------------------------------------------------------------
(* SpecEdit: the edit form of SpecForm with several notes shown to a        *)
(* signed-in user, so that one note's save can be answered while another    *)
(* note is edited. The composer, the pin and delete controls and the        *)
(* account buttons are left alone.                                          *)

\* The notes shown.
MaxEditNotes == 2

EditIds == 1..MaxEditNotes

EditInit ==
    /\ fUser = TRUE
    /\ fDocs = {[id |-> id, body |-> <<"b">>, pinned |-> FALSE] : id \in EditIds}
    /\ fNotes = fDocs
    /\ fDraft = <<>>
    /\ fEditId = 0
    /\ fEditBody = <<>>
    /\ fAuthPending = FALSE
    /\ fError = <<>>
    /\ fQueue = <<>>
    /\ fLast = formStep("other", 0)
    /\ SortIdle
    /\ ReorderIdle
    /\ IndexIdle
    /\ AppIdle
    /\ BoundsIdle
    /\ BodyIdle
    /\ WorkerIdle

EditNext ==
    \/ \E id \in EditIds, swipe \in BOOLEAN : FormStartEdit(id, swipe)
    \/ \E value \in FormBodies : SetEditBody(value)
    \/ FormCancelEdit
    \/ SaveEdit
    \/ handleEditKeyDown
    \/ FormSnapshot
    \/ \E i \in DOMAIN fQueue : FormResolved(i, TRUE)
    \/ \E i \in DOMAIN fQueue, error \in FormErrors : FormRejected(i, error)

SpecEdit == EditInit /\ [][EditNext]_vars

----------------------------------------------------------------------------
(* Accounts and owners: the account a sign-in delivers, the allowlist, the
   notes of the signed-in user and the owner every write names.  The form
   variables are used with fUser an account, fDocs the notes of every owner
   and an open call carrying the data handed to the store.  Of a note the
   owner and the pinned flag are kept. *)

MaxAuthNotes == 2

AuthNoteIds == 1..MaxAuthNotes

\* a JavaScript value that is a string, and one that is not
jsString(chars) == [type |-> "string", chars |-> chars]

undefined == [type |-> "undefined", chars |-> <<>>]

\* the addresses of ALLOWED_USER_EMAILS, each written as its first letter
ALLOWED_USER_EMAILS == {<<"g">>, <<"n">>, <<"b">>}

\* value.toLowerCase(), for the letters of the model
LowerCase == [G |-> "g", N |-> "n", B |-> "b", Z |-> "z"]

toLowerCase(value) == [i \in DOMAIN value |-> IF value[i] \in DOMAIN LowerCase THEN LowerCase[value[i]] ELSE value[i]]

normalizeEmail(value) == IF value.type # "string" THEN <<>> ELSE toLowerCase(trim(value.chars))

\* user === null; user?.email is then undefined
NoUser == [uid |-> 0, email |-> undefined]

\* the accounts the provider can deliver: two of the allowlist, one of them
\* as the provider spells it, one that is not of the list, one without an
\* address
AuthAccounts == {[uid |-> 1, email |-> jsString(<<"g">>)], [uid |-> 2, email |-> jsString(<<" ", "N">>)], [uid |-> 3, email |-> jsString(<<"z">>)], [uid |-> 4, email |-> undefined]}

isAllowedUserAny(user) == TRUE

isAllowedUser(user) == normalizeEmail(user.email) \in ALLOWED_USER_EMAILS

NoData == [none |-> TRUE]

ownerRequest(kind, id, data) == [kind |-> kind, id |-> id, data |-> data]

\* the fields each handler hands to addDoc, updateDoc or batch.update, the
\* timestamps left out
ownerData(kind, user, note) ==
    CASE kind = "create" -> [uid |-> user.uid, body |-> <<"a">>, pinned |-> FALSE, sortIndex |-> 0]
      [] kind = "edit" -> [uid |-> user.uid, body |-> <<"b">>]
      [] kind = "pin" -> [uid |-> user.uid, pinned |-> ~note.pinned, sortIndex |-> 0]
      [] kind = "reorder" -> [uid |-> user.uid, sortIndex |-> 1]

authNote(set, id) == CHOOSE note \in set : note.id = id

authFreeIds == AuthNoteIds \ ({note.id : note \in fDocs} \cup {fQueue[i].id : i \in DOMAIN fQueue})

\* the callback of onAuthStateChanged and the effect on [user] behind it;
\* rest is what stays of the open calls
onAuthStateChanged(nextUser, rest) ==
    /\ fLast' = formStep("onAuthStateChanged", nextUser.uid)
    /\ IF nextUser # NoUser /\ ~isAllowedUser(nextUser)
       THEN /\ fUser' = NoUser
            /\ fNotes' = {}
            /\ fError' = NotAllowedText
            /\ fQueue' = Append(rest, ownerRequest("signOutNotAllowed", 0, NoData))
       ELSE /\ fUser' = nextUser
            /\ fNotes' = IF nextUser = NoUser THEN {} ELSE fNotes
            /\ fQueue' = rest
            /\ UNCHANGED fError

AuthInit ==
    /\ fUser = NoUser
    /\ fDocs = {[id |-> 1, uid |-> 1, pinned |-> FALSE], [id |-> 2, uid |-> 2, pinned |-> FALSE]}
    /\ fNotes = {}
    /\ fDraft = <<>>
    /\ fEditId = 0
    /\ fEditBody = <<>>
    /\ fAuthPending = FALSE
    /\ fError = <<>>
    /\ fQueue = <<>>
    /\ fLast = formStep("other", 0)
    /\ SortIdle
    /\ ReorderIdle
    /\ IndexIdle
    /\ AppIdle
    /\ BoundsIdle
    /\ BodyIdle
    /\ WorkerIdle

authRest == <<fDraft, fEditId, fEditBody, formRest>>

\* handleSignIn and handleSignOut up to their await
AuthSign(kind) ==
    /\ ~fAuthPending
    /\ Len(fQueue) < MaxPending
    /\ IF kind = "signIn" THEN fUser = NoUser ELSE fUser # NoUser
    /\ fError' = <<>>
    /\ fAuthPending' = TRUE
    /\ fQueue' = Append(fQueue, ownerRequest(kind, 0, NoData))
    /\ fLast' = formStep("other", 0)
    /\ UNCHANGED <<fUser, fDocs, fNotes, authRest>>

\* the listener of the query where('uid', '==', user.uid)
AuthSnapshot ==
    /\ fUser # NoUser
    /\ fNotes' = {note \in fDocs : note.uid = fUser.uid}
    /\ fNotes' # fNotes
    /\ fLast' = formStep("other", 0)
    /\ UNCHANGED <<fUser, fDocs, fAuthPending, fError, fQueue, authRest>>

\* submitCreate, handleUpdate(noteId, rawBody), handleTogglePin and
\* reorderWithinGroup up to their write
AuthWrite(kind, id) ==
    /\ fUser # NoUser
    /\ Len(fQueue) < MaxPending
    /\ IF kind = "create"
       THEN authFreeIds # {} /\ id = CHOOSE free \in authFreeIds : \A other \in authFreeIds : free <= other
       ELSE \E note \in fNotes : note.id = id
    /\ fError' = <<>>
    /\ fQueue' = Append(fQueue, ownerRequest(kind, id, ownerData(kind, fUser, IF kind = "create" THEN NoData ELSE authNote(fNotes, id))))
    /\ fLast' = formStep("other", 0)
    /\ UNCHANGED <<fUser, fDocs, fNotes, fAuthPending, authRest>>

\* handleDelete up to its await: deleteDoc is handed no data
AuthDelete(id, ok) ==
    /\ \E note \in fNotes : note.id = id
    /\ ok => Len(fQueue) < MaxPending
    /\ fError' = IF ok THEN <<>> ELSE fError
    /\ fQueue' = IF ok THEN Append(fQueue, ownerRequest("delete", id, NoData)) ELSE fQueue
    /\ fLast' = formStep("other", 0)
    /\ UNCHANGED <<fUser, fDocs, fNotes, fAuthPending, authRest>>

\* the rules of the store, the requester being the signed-in user
allowedByRules(req) ==
    /\ fUser # NoUser
    /\ IF req.kind = "create"
       THEN req.data.uid = fUser.uid
       ELSE \E note \in fDocs :
               /\ note.id = req.id
               /\ note.uid = fUser.uid
               /\ req.kind # "delete" => req.data.uid = fUser.uid

authApply(set, req) ==
    CASE req.kind = "create" -> set \cup {[id |-> req.id, uid |-> req.data.uid, pinned |-> req.data.pinned]}
      [] req.kind = "delete" -> {note \in set : note.id # req.id}
      [] OTHER -> {IF note.id = req.id THEN mergeFields(note, req.data) ELSE note : note \in set}

\* an open call is answered: a sign-in delivers an account
AuthResolved(i, account) ==
    LET req == fQueue[i]
        rest == removeAt(fQueue, i)
    IN  CASE req.kind = "signIn" ->
               /\ fAuthPending' = FALSE
               /\ onAuthStateChanged(account, rest)
               /\ UNCHANGED <<fDocs, authRest>>
          [] req.kind = "signOut" ->
               /\ fAuthPending' = FALSE
               /\ onAuthStateChanged(NoUser, rest)
               /\ UNCHANGED <<fDocs, authRest>>
          [] req.kind = "signOutNotAllowed" ->
               /\ onAuthStateChanged(NoUser, rest)
               /\ UNCHANGED <<fDocs, fAuthPending, authRest>>
          [] OTHER ->
               /\ allowedByRules(req)
               /\ fDocs' = authApply(fDocs, req)
               /\ fQueue' = rest
               /\ fLast' = formStep("other", 0)
               /\ UNCHANGED <<fUser, fNotes, fAuthPending, fError, authRest>>

\* an open call fails
AuthRejected(i, error) ==
    LET req == fQueue[i]
    IN  /\ fQueue' = removeAt(fQueue, i)
        /\ fError' = IF req.kind = "signOutNotAllowed" THEN fError ELSE getErrorMessage(error)
        /\ fAuthPending' = IF req.kind \in {"signIn", "signOut"} THEN FALSE ELSE fAuthPending
        /\ fLast' = formStep("other", 0)
        /\ UNCHANGED <<fUser, fDocs, fNotes, authRest>>

AuthNext ==
    \/ \E kind \in {"signIn", "signOut"} : AuthSign(kind)
    \/ AuthSnapshot
    \/ \E kind \in {"create", "edit", "pin", "reorder"}, id \in AuthNoteIds : AuthWrite(kind, id)
    \/ \E id \in AuthNoteIds, ok \in BOOLEAN : AuthDelete(id, ok)
    \/ \E i \in DOMAIN fQueue, account \in AuthAccounts : AuthResolved(i, account)
    \/ \E i \in DOMAIN fQueue : AuthRejected(i, firebaseError(<<"FirebaseError: ", "Missing or insufficient permissions", ".">>))

SpecAuth == AuthInit /\ [][AuthNext]_vars

----------------------------------------------------------------------------
(* Claims on sortNotes *)

SameNotes(s, t) == Len(s) = Len(t) /\ Range(s) = Range(t)

PermutationsOf(s) == {t \in [DOMAIN s -> Range(s)] : Range(t) = Range(s)}

\* C1: in the output of sortNotes every pinned note comes before every
\* unpinned note (and the output holds exactly the notes of the input).
C1_PinnedFirst ==
    sortPhase # "input" =>
        /\ SameNotes(sorted, items)
        /\ \A i, j \in DOMAIN sorted :
              (i < j /\ sorted[j].pinned) => sorted[i].pinned

C1_Witness ==
    /\ sortPhase = "sorted"
    /\ \E i, j \in DOMAIN items : i < j /\ ~items[i].pinned /\ items[j].pinned
    /\ \E i \in DOMAIN items : items[i].pinned /\ getSortIndex(items[i]) = Null

\* C2: on notes with distinct ids the comparator is a strict total order (no
\* two distinct notes compare equal, opposite arguments give opposite signs,
\* "sorts before" is transitive), and sorting the sorted output changes nothing.
C2_StrictTotalOrderIdempotent ==
    /\ \A a, b \in Range(items) :
          /\ a # b => compareNotes(a, b) # 0
          /\ compareNotes(a, b) < 0 <=> compareNotes(b, a) > 0
    /\ \A a, b, c \in Range(items) :
          (compareNotes(a, b) < 0 /\ compareNotes(b, c) < 0) => compareNotes(a, c) < 0
    /\ sortPhase = "sorted" =>
          \A i, j \in DOMAIN sorted : i < j => compareNotes(sorted[i], sorted[j]) < 0
    /\ sortPhase = "resorted" => sorted = sortNotes(items)

C2_Witness ==
    /\ sortPhase = "resorted"
    /\ Len(items) = MaxNotes
    /\ items # sorted
    /\ \E i, j \in DOMAIN items :
          /\ i # j
          /\ getSortIndex(items[i]) = Null /\ getSortIndex(items[j]) # Null
          /\ items[i].pinned = items[j].pinned

\* C3: sortNotes returns the same sequence for every permutation of the same
\* note set.
C3_InputOrderIrrelevant ==
    sortPhase = "sorted" => \A p \in PermutationsOf(items) : sortNotes(p) = sorted

C3_Witness ==
    /\ sortPhase = "sorted"
    /\ Len(items) = MaxNotes
    /\ items # sorted
    /\ \E i, j \in DOMAIN items :
          /\ i # j
          /\ items[i].pinned = items[j].pinned
          /\ getSortIndex(items[i]) = getSortIndex(items[j])
          /\ items[i].updatedAt = items[j].updatedAt

----------------------------------------------------------------------------
(* Claims on reorderWithinGroup *)

idsOf(s) == [i \in DOMAIN s |-> s[i].id]

\* 0-based place of x in the sequence s of ids
PlaceOf(s, x) == (CHOOSE i \in DOMAIN s : s[i] = x) - 1

Without(s, x) == SelectSeq(s, LAMBDA y : y # x)

Clamp(v, lo, hi) == IF v < lo THEN lo ELSE IF v > hi THEN hi ELSE v

\* the moving note's group, in display order, before and after the write back
rGroupBefore == filterGroup(sortNotes(rNotes), rCall.pinned)

rGroupAfter == filterGroup(sortNotes(rAfter), rCall.pinned)

rFrom == PlaceOf(idsOf(rGroupBefore), rCall.id)

rClamped == Clamp(rCall.pos, 0, Len(rGroupBefore))

\* final array index of the moving note, as section 4.2 step 3 states it
rTarget == IF rClamped > rFrom THEN rClamped - 1 ELSE rClamped

\* the moving note put into the gap in front of the note at place rClamped
rIntendedByGap ==
    LET ids == idsOf(rGroupBefore)
    IN  Without(SubSeq(ids, 1, rClamped), rCall.id) \o <<rCall.id>>
            \o Without(SubSeq(ids, rClamped + 1, Len(ids)), rCall.id)

\* the moving note removed, then put back at index rTarget
rIntendedByTarget ==
    LET rest == Without(idsOf(rGroupBefore), rCall.id)
    IN  SubSeq(rest, 1, rTarget) \o <<rCall.id>> \o SubSeq(rest, rTarget + 1, Len(rest))

\* C4: once the emitted index updates are written back, sortNotes over the
\* group yields exactly the group with the moving note removed from its old
\* place and reinserted at the target, whatever the indices were before.
C4_ReorderRoundTrip ==
    rPhase = "written" =>
        /\ idsOf(rGroupAfter) = rIntendedByTarget
        /\ idsOf(rGroupAfter) = rIntendedByGap

C4_Witness ==
    /\ rPhase = "written"
    /\ commitCalled(rResult)
    /\ Len(rGroupBefore) = MaxNotes
    /\ rCall.pos > MaxNotes
    /\ \E i, j \in DOMAIN rGroupBefore :
          /\ i # j
          /\ getSortIndex(rGroupBefore[i]) = getSortIndex(rGroupBefore[j])
    /\ \E i \in DOMAIN rGroupBefore : getSortIndex(rGroupBefore[i]) = Null

\* C5 as stated: after the write back the moving note stands at place pos
\* clamped to [0, groupLength].
C5_AsStated ==
    rPhase = "written" => PlaceOf(idsOf(rGroupAfter), rCall.id) = rClamped

\* C5 amended: after the write back the moving note stands at place c - 1
\* when c > fromIndex and at place c otherwise, c being pos clamped to
\* [0, groupLength].
C5_PlacedAtTarget ==
    rPhase = "written" =>
        PlaceOf(idsOf(rGroupAfter), rCall.id) =
            (IF rClamped > rFrom THEN rClamped - 1 ELSE rClamped)

C5_Witness ==
    /\ rPhase = "written"
    /\ commitCalled(rResult)
    /\ rClamped > rFrom + 1
    /\ PlaceOf(idsOf(rGroupAfter), rCall.id) = rClamped - 1

\* C6: when the insertion position is the moving note's own place, or the
\* computed target equals fromIndex, nothing is emitted and no commit is
\* made, whatever the sort indices of the group are.
C6_NoOp ==
    (rPhase \in {"called", "written"} /\ (rClamped = rFrom \/ rTarget = rFrom)) =>
        /\ rResult.updates = {}
        /\ ~commitCalled(rResult)
        /\ rPhase = "written" => rAfter = rNotes

C6_Witness ==
    /\ rPhase = "written"
    /\ rCall.pos = rFrom + 1
    /\ Len(rGroupBefore) >= 2
    /\ \E i \in DOMAIN rGroupBefore : getSortIndex(rGroupBefore[i]) # <<i - 1>>

\* C7: a reorder leaves every note of the group with the sort index of its
\* new 0-based place, and the batch holds an update (to that place) for
\* exactly the notes whose previous index differs from it; [A(0), B(1), C(2)]
\* with C moved to 0 gives exactly {C: 0, A: 1, B: 2}.
C7_MinimalUpdates ==
    (rPhase = "written" /\ rResult.outcome = "batch") =>
        /\ \A k \in DOMAIN rGroupAfter : getSortIndex(rGroupAfter[k]) = <<k - 1>>
        /\ rResult.updates =
              {[id |-> n.id, sortIndex |-> PlaceOf(rIntendedByGap, n.id)] :
                  n \in {m \in Range(rGroupBefore) :
                            getSortIndex(m) # <<PlaceOf(rIntendedByGap, m.id)>>}}
        /\ (/\ Len(rNotes) = 3
            /\ \A i \in 1..3 : ~rNotes[i].pinned /\ getSortIndex(rNotes[i]) = <<i - 1>>
            /\ rCall.id = 3 /\ rCall.pos = 0)
           => rResult.updates = {[id |-> 3, sortIndex |-> 0], [id |-> 1, sortIndex |-> 1],
                                 [id |-> 2, sortIndex |-> 2]}

C7_Witness ==
    /\ rPhase = "written"
    /\ Len(rNotes) = 3
    /\ \A i \in 1..3 : ~rNotes[i].pinned /\ getSortIndex(rNotes[i]) = <<i - 1>>
    /\ rCall.id = 3 /\ rCall.pos = 0
    /\ Cardinality(rResult.updates) = 3

----------------------------------------------------------------------------
(* Claims on the App over the store, checked under Spec *)

\* Every update of the reorder is in the document set.
AllApplied(D, updates) ==
    \A u \in updates : \E n \in D : n.id = u.id /\ n.sortIndex = <<u.sortIndex>>

\* C8: the sort-index updates of one reorder are committed as one
\* all-or-nothing batch: whenever the store changes while a reorder's write is
\* the one being answered, all of that reorder's updates are applied by that
\* step, and a refused write changes no document and surfaces the error.
C8_AllOrNothing ==
    [][/\ (writeQueue # <<>> /\ Head(writeQueue).kind = "batch" /\ docs' # docs)
            => AllApplied(docs', Head(writeQueue).of)
       /\ lastOp'.name = "batchRejected"
            => (docs' = docs /\ errorMessage' = StoreErrorMessage)]_vars

\* A reorder changing two indices or more has been committed.
C8_Witness == lastOp.name = "batchResolved" /\ lastOp.size >= 2

C10_AsStated ==
    (/\ lastOp.name \in {"handleDrop", "handleDropByIndicator", "handleTouchEnd"}
     /\ lastOp.drag # NoId
     /\ ~lastOp.ever)
        => ~lastOp.wrote

\* C10: the end of a touch drag, a drop on a spacer and a drop on a note of
\* the other group, made while no insertion indicator is set, dispatch no
\* write.
C10_NoIndicatorNoWrite ==
    (/\ \/ lastOp.name \in {"handleDropByIndicator", "handleTouchEnd"}
        \/ lastOp.name = "handleDrop" /\ lastOp.cross
     /\ lastOp.drag # NoId
     /\ ~lastOp.set)
        => ~lastOp.wrote

\* A long-press drag was released with no indicator set, then or before.
C10_Witness ==
    /\ lastOp.name = "handleTouchEnd"
    /\ lastOp.drag # NoId
    /\ ~lastOp.ever /\ ~lastOp.set
    /\ ~lastOp.wrote
    /\ Len(orderedNotes) >= 2

----------------------------------------------------------------------------
(* Claims on the edge indices, checked under SpecIndex *)

\* the finite sort indices of the notes of a group
definedIndices(arr, pinned) ==
    {arr[i].sortIndex[1] : i \in {j \in DOMAIN arr : arr[j].pinned = pinned /\ arr[j].sortIndex # Null}}

groupOf(arr, pinned) == {arr[i] : i \in {j \in DOMAIN arr : arr[j].pinned = pinned}}

SetMax(S) == CHOOSE m \in S : \A x \in S : x <= m

SetMin(S) == CHOOSE m \in S : \A x \in S : m <= x

iNextCalled == iPhase = "called" /\ iCall.op = "findNextSortIndex"

iTopCalled == iPhase = "called" /\ iCall.op = "findGroupTopIndex"

\* C13 as stated: findNextSortIndex returns the maximum defined sort index
\* of the group plus one whatever the sign of the indices, and 0 when the
\* group has no defined index.
C13_AsStated ==
    iNextCalled =>
        LET S == definedIndices(iNotes, iCall.pinned)
        IN  iResult[1] = IF S = {} THEN 0 ELSE SetMax(S) + 1

\* C13: findNextSortIndex returns the maximum defined sort index of the
\* group plus one when that maximum is at least -1, and 0 when every defined
\* index of the group is below -1, when the group is empty and when none of
\* its notes has a defined index.
C13_NextAfter ==
    iNextCalled =>
        LET S == definedIndices(iNotes, iCall.pinned)
        IN  iResult[1] = IF S # {} /\ SetMax(S) >= 0 - 1 THEN SetMax(S) + 1 ELSE 0

C13_Witness ==
    /\ iNextCalled
    /\ Cardinality(definedIndices(iNotes, iCall.pinned)) >= 2
    /\ iResult[1] = SetMax(definedIndices(iNotes, iCall.pinned)) + 1
    /\ iResult[1] = MaxSortIndex + 1

\* C14 as stated: findGroupTopIndex returns the minimum defined sort index
\* of the group minus one whatever the sign of the indices, and 0 when the
\* group is empty.
C14_AsStated ==
    iTopCalled =>
        LET S == definedIndices(iNotes, iCall.pinned)
        IN  /\ groupOf(iNotes, iCall.pinned) = {} => iResult[1] = 0
            /\ S # {} => iResult[1] = SetMin(S) - 1

\* C14: findGroupTopIndex returns the minimum defined sort index of the
\* group minus one when that minimum is at most 0, -1 when the group is not
\* empty and has no defined index at or below 0, and 0 when the group is
\* empty.
C14_TopBefore ==
    iTopCalled =>
        LET S == definedIndices(iNotes, iCall.pinned)
        IN  iResult[1] = IF groupOf(iNotes, iCall.pinned) = {} THEN 0
                         ELSE IF S # {} /\ SetMin(S) <= 0 THEN SetMin(S) - 1
                         ELSE 0 - 1

C14_Witness ==
    /\ iTopCalled
    /\ Cardinality(definedIndices(iNotes, iCall.pinned)) >= 2
    /\ iResult[1] = SetMin(definedIndices(iNotes, iCall.pinned)) - 1
    /\ iResult[1] = 0 - MaxSortIndex - 1

iToggleCalled == iPhase \in {"called", "written"} /\ iCall.op = "handleTogglePin"

\* the document of the call as it is read back
iWritten == CHOOSE n \in Range(iAfter) : n.id = iCall.id

\* C12: a pin toggle writes the negated pinned flag, the server timestamp as
\* updatedAt, and a sort index at the edge of the group the note enters: at
\* most the minimum defined pinned index minus one when pinning, at least
\* the maximum defined unpinned index plus one when unpinning.  Read back,
\* the document carries the new flag and a timestamp not before any other.
C12_EdgeIndex ==
    /\ iToggleCalled =>
          LET fields == iResult[1]
              S == definedIndices(iNotes, ~iCall.pinned)
          IN  /\ fields.pinned = ~iCall.pinned
              /\ fields.updatedAt = ServerTimestamp
              /\ (fields.pinned /\ S # {}) => fields.sortIndex <= SetMin(S) - 1
              /\ (~fields.pinned /\ S # {}) => fields.sortIndex >= SetMax(S) + 1
    /\ (iToggleCalled /\ iPhase = "written") =>
          /\ iWritten.pinned = ~iCall.pinned
          /\ iWritten.sortIndex = <<iResult[1].sortIndex>>
          /\ \A i \in DOMAIN iNotes : iNotes[i].updatedAt <= iWritten.updatedAt

\* a note pinned into a group of two with indices, and read back
C12_Witness ==
    /\ iToggleCalled
    /\ iPhase = "written"
    /\ iWritten.pinned
    /\ Cardinality(definedIndices(iNotes, TRUE)) = 2
    /\ iWritten.sortIndex[1] < SetMin(definedIndices(iNotes, TRUE))

\* C15 as stated: once the write of handleTogglePin on a pinned note is read
\* back, the note is the last of the unpinned notes of sortNotes, whatever
\* the note set (unpinned notes without a sort index included).
C15_UnpinnedToBottom ==
    (iToggleCalled /\ iPhase = "written" /\ iCall.pinned) =>
        LET unpinned == filterGroup(sortNotes(iAfter), FALSE)
        IN  unpinned[Len(unpinned)].id = iCall.id

iCreateCalled == iPhase \in {"called", "written"} /\ iCall.op = "submitCreate" /\ iResult # <<>>

----------------------------------------------------------------------------
(* Claims on touch releases, checked under SpecSwipe *)

\* the release has a swipe session of its note and no drag under way
sOutsideDrag(r) == r.armed /\ ~r.dragging

\* horizontal displacement of at least 72 px and at least 1.25 times the
\* vertical one
sQualifies(r) ==
    /\ Abs(r.deltaX) >= SWIPE_TRIGGER_PX
    /\ 4 * Abs(r.deltaX) >= 5 * Abs(r.deltaY)

sDeleteDispatched(r) ==
    /\ Len(writeQueue) = Len(r.writeQueue) + 1
    /\ SubSeq(writeQueue, 1, Len(r.writeQueue)) = r.writeQueue
    /\ writeQueue[Len(writeQueue)].kind = "delete"
    /\ writeQueue[Len(writeQueue)].id = r.noteId

\* C19: a touch release outside a drag that qualifies as a swipe opens edit
\* mode for its note and deletes nothing when rightward, asks to delete its
\* note (and on confirmation dispatches the delete) and opens no edit when
\* leftward; a release that does not qualify does neither.
C19_SwipeClassification ==
    (lastTouchEnd # Null /\ sOutsideDrag(lastTouchEnd[1])) =>
        LET r == lastTouchEnd[1]
        IN  IF sQualifies(r) /\ r.deltaX > 0
            THEN editId = r.noteId /\ writeQueue = r.writeQueue
            ELSE IF sQualifies(r) /\ r.deltaX < 0
            THEN /\ editId = r.editId
                 /\ IF r.ok THEN sDeleteDispatched(r) ELSE writeQueue = r.writeQueue
            ELSE editId = r.editId /\ writeQueue = r.writeQueue

\* the release 80 px to the right and 10 px down opened the editor
C19_Witness ==
    /\ lastTouchEnd # Null
    /\ sOutsideDrag(lastTouchEnd[1])
    /\ lastTouchEnd[1].deltaX = 80
    /\ lastTouchEnd[1].deltaY = 10
    /\ lastTouchEnd[1].editId = NoId
    /\ editId = lastTouchEnd[1].noteId
    /\ writeQueue = lastTouchEnd[1].writeQueue

----------------------------------------------------------------------------
(* Claims on the drag follower, checked under SpecFollower *)

\* C20: the browser never holds more than one frame callback of the
\* follower, and holds one exactly while dragFollowerRafRef is set; a
\* pointer position handed to updateDragFollowerPosition while one is held
\* replaces the pending position and requests no other; and the callback
\* leaves the follower of the pending note at the position handed over
\* last, rounded to whole pixels.
C20_Coalesced ==
    /\ [](frameCallbacks <= 1 /\ (dragFollowerRaf <=> frameCallbacks = 1))
    /\ [][/\ (lastArrived' # Null /\ lastArrived'[1].op = "update" /\ frameCallbacks = 1)
              => /\ frameCallbacks' = 1
                 /\ pendingDragFollowerRef' = [noteId |-> lastArrived'[1].noteId,
                                               point |-> lastArrived'[1].point]
          /\ (lastArrived' # Null /\ lastArrived'[1].op = "frame")
              => /\ pendingDragFollowerRef'.point = lastArrived'[1].point
                 /\ pendingDragFollowerRef'.noteId = lastArrived'[1].noteId
                 /\ (dragFollower' = lastArrived'[1].noteId)
                       => roundPoint(dragFollowerAt') = roundPoint(lastArrived'[1].point)]_vars

\* a frame that moved the follower to a position that arrived while the
\* frame was already requested
C20_Witness ==
    /\ lastArrived # Null
    /\ lastArrived[1].op = "frame"
    /\ lastArrived[1].coalesced
    /\ dragFollower = lastArrived[1].noteId
    /\ dragFollowerAt = roundPoint(lastArrived[1].point)
    /\ dragFollowerAt # lastArrived[1].point
    /\ frameCallbacks = 0

----------------------------------------------------------------------------
(* Claims on sessions, checked under Spec *)

\* C17 as stated: in every reachable state, no drag session (a dragId) while
\* a note is in edit mode (an editId).
C17_EditExcludesDrag == editId # NoId => dragId = NoId

\* the step is a cancellation: a touch-cancel, or the start of a new mouse
\* or touch session
sCancels(op) == op.name \in {"handleTouchCancel", "handleDragStart", "handleTouchStart"}

\* C18 as stated: a touch-cancel or the start of a new session leaves no
\* long-press timer (but the new session's), no scroll lock, no requested
\* animation frame, no insertion indicator and no drag id (but the new
\* session's), and dispatches no write.
C18_CancellationClears ==
    [][sCancels(lastOp') =>
          /\ longPressTimer' \in {NoId, lastOp'.drag}
          /\ ~touchScrollLock'
          /\ ~dragFollowerRaf'
          /\ dropIndicator' = Null /\ dropIndicatorRef' = Null
          /\ dragId' \in {NoId, lastOp'.drag}
          /\ dragIdRef' \in {NoId, lastOp'.drag}
          /\ touchDragId' = NoId
          /\ writeQueue' = writeQueue]_vars

----------------------------------------------------------------------------
(* Claims on releases after a second client's write, checked under SpecStale *)

\* A step that releases the drag under way
sReleases ==
    /\ underWay(gesture) # Null
    /\ lastOp'.name \in {"handleDrop", "handleDropByIndicator", "handleTouchEnd"}
    /\ lastOp'.drag = gesture[1].id

\* C11 as stated: when a snapshot between the start of a drag and its release
\* has deleted the dragged note or changed its pinned group, the release
\* dispatches no write.
C11_AsStated ==
    [][(sReleases /\ (gesture[1].deleted \/ gesture[1].moved)) => writeQueue' = writeQueue]_vars

\* C11: when a snapshot between the start of a drag and its release has
\* deleted the dragged note, the release dispatches no write; when it has
\* changed the note's pinned group, the release dispatches a write only with
\* an indicator of the note's new group, or as a mouse drop on a note of the
\* new group.
C11_StaleRelease ==
    [][sReleases =>
         /\ gesture[1].deleted => writeQueue' = writeQueue
         /\ (gesture[1].moved /\ writeQueue' # writeQueue)
              => (lastOp'.own \/ (lastOp'.name = "handleDrop" /\ ~lastOp'.cross))]_vars

\* A drag released with a write after its note changed group
C11_Witness ==
    /\ gesture # Null
    /\ gesture[1].released
    /\ gesture[1].moved
    /\ lastOp.drag = gesture[1].id
    /\ lastOp.name \in {"handleDrop", "handleDropByIndicator", "handleTouchEnd"}
    /\ lastOp.wrote

----------------------------------------------------------------------------
(* Claims on the order inside one group, checked under SpecSort *)

\* C27: in the output of sortNotes, within one pinned group, every note with
\* a defined sort index comes before every note without one, whatever their
\* timestamps and ids.
C27_IndexedFirst ==
    sortPhase # "input" =>
        \A i, j \in DOMAIN sorted :
            (/\ sorted[i].pinned = sorted[j].pinned
             /\ getSortIndex(sorted[i]) # Null
             /\ getSortIndex(sorted[j]) = Null) => i < j

\* The note without an index is the newer one, has the smaller id and comes
\* first in the input
C27_Witness ==
    /\ sortPhase = "sorted"
    /\ \E i, j \in DOMAIN items :
          /\ i < j
          /\ items[i].pinned = items[j].pinned
          /\ getSortIndex(items[i]) = Null /\ getSortIndex(items[j]) # Null
          /\ items[i].updatedAt > items[j].updatedAt
          /\ items[i].id < items[j].id

\* The key sequence of a note inside its group: notes with an index first,
\* then the index, then the timestamp descending, then the id.
sortKey(note) ==
    <<IF getSortIndex(note) = Null THEN 1 ELSE 0,
      IF getSortIndex(note) = Null THEN 0 ELSE getSortIndex(note)[1],
      0 - note.updatedAt,
      note.id>>

RECURSIVE keyBefore(_, _, _)
keyBefore(k, l, n) ==
    IF n > Len(k) THEN FALSE
    ELSE IF k[n] # l[n] THEN k[n] < l[n]
    ELSE keyBefore(k, l, n + 1)

\* C28: within one pinned group the output of sortNotes is in the order of
\* the key sequence: sort index ascending, then timestamp descending (a
\* missing timestamp is 0), then id ascending; and it holds the input's notes.
C28_ReferenceOrder ==
    sortPhase # "input" =>
        /\ SameNotes(sorted, items)
        /\ \A i, j \in DOMAIN sorted :
              (i < j /\ sorted[i].pinned = sorted[j].pinned)
                  => keyBefore(sortKey(sorted[i]), sortKey(sorted[j]), 1)

\* A group in which each key decides a pair: two indices that differ, one
\* index shared with timestamps that differ
C28_Witness ==
    /\ sortPhase = "sorted"
    /\ items # sorted
    /\ \E i, j, k \in DOMAIN items :
          /\ items[i].pinned = items[j].pinned /\ items[j].pinned = items[k].pinned
          /\ getSortIndex(items[i]) # Null
          /\ getSortIndex(items[i]) = getSortIndex(items[j])
          /\ items[i].updatedAt # items[j].updatedAt
          /\ getSortIndex(items[k]) # Null
          /\ getSortIndex(items[k]) # getSortIndex(items[i])

----------------------------------------------------------------------------
(* Claims on insertion positions out of range, checked under SpecReorder *)

\* C29: reorderWithinGroup takes an insertion position below 0 as 0 and one
\* above the group's length as the length, and the final index is the
\* clamped position minus one when that is above fromIndex and the clamped
\* position otherwise: the call ends as a no-op or a batch, every index it
\* writes is a place of the group, the group keeps its notes, and the moving
\* note ends first for a position below 0 and last for one above the length.
C29_ClampedInRange ==
    rPhase = "written" =>
        LET length == Len(rGroupBefore)
            place == PlaceOf(idsOf(rGroupAfter), rCall.id)
        IN  /\ rResult.outcome \in {"noop", "batch"}
            /\ \A u \in rResult.updates : u.sortIndex \in 0..(length - 1)
            /\ Range(idsOf(rGroupAfter)) = Range(idsOf(rGroupBefore))
            /\ place \in 0..(length - 1)
            /\ rCall.pos < 0 => place = 0
            /\ rCall.pos > length => place = length - 1
            /\ rCall.pos \in 0..length =>
                  place = (IF rCall.pos > rFrom THEN rCall.pos - 1 ELSE rCall.pos)

\* A note moved by a position below 0 out of a group of several notes that
\* is smaller than the note set
C29_Witness ==
    /\ rPhase = "written"
    /\ rCall.pos < 0
    /\ commitCalled(rResult)
    /\ Len(rGroupBefore) >= 2
    /\ Len(rGroupBefore) < Len(rNotes)
    /\ rFrom = Len(rGroupBefore) - 1

----------------------------------------------------------------------------
(* Claims on the insertion indicator, checked under SpecBounds *)

bGroup == filterGroup(sortNotes(bNotes), noteById(sortNotes(bNotes), bCall.id).pinned)

bFrom == findIndex(bGroup, bCall.id)

\* The place among the other notes of the group that a release with the
\* insertion index gives the dragged note (the conversion of
\* reorderWithinGroup)
bPlaceOf(index) == toIndexOf(safeInsertIndexOf(index, Len(bGroup)), bFrom)

\* The place the indicator stood for before the evaluation: the note's own
\* when there was none for its group
bPlaceBefore ==
    IF bCall.indicator # Null /\ bCall.indicator[1].pinned = noteById(sortNotes(bNotes), bCall.id).pinned
    THEN bPlaceOf(bCall.indicator[1].index) ELSE bFrom

\* C30: an evaluation that sets the indicator moves the place it stands for
\* by exactly one, towards the start only when moving up and towards the end
\* only when moving down, and the indicator stays in the dragged note's
\* group; an evaluation without movement or without a crossing sets nothing.
C30_OneStep ==
    bPhase = "called" =>
        /\ bResult # Null =>
              LET before == bPlaceBefore
                  after == bPlaceOf(bResult[1].index)
              IN  /\ hasNote(sortNotes(bNotes), bCall.id)
                  /\ bResult[1].pinned = noteById(sortNotes(bNotes), bCall.id).pinned
                  /\ bResult[1].index \in 0..Len(bGroup)
                  /\ after \in {before - 1, before + 1}
                  /\ after = before - 1 => bCall.movingUp
                  /\ after = before + 1 => bCall.movingDown
                  /\ bCall.crosses
        /\ ((~bCall.movingUp /\ ~bCall.movingDown) \/ ~bCall.crosses) => bResult = Null

\* The indicator passes the dragged note's own place: its index goes from
\* the gap before the note to the gap after the next one
C30_Witness ==
    /\ bPhase = "called"
    /\ bResult # Null
    /\ bCall.indicator # Null
    /\ bCall.indicator[1].pinned = bResult[1].pinned
    /\ bCall.indicator[1].index = bFrom
    /\ bResult[1].index = bFrom + 2

----------------------------------------------------------------------------
(* Claims on normalizeBody, checked under SpecBody *)

\* "hello\n\n world"
ExampleNormalized ==
    <<"h", "e", "l", "l", "o", "\n", "\n", " ", "w", "o", "r", "l", "d">>

\* The lines of a string: its maximal runs without a line feed
nLineEnds(value) == {0, Len(value) + 1} \cup {i \in DOMAIN value : value[i] = "\n"}

\* C25: the output of normalizeBody has no carriage return, no white space
\* before a line feed, none at its start and none at its end; it is the input
\* with line ends replaced when the input is already such a string;
\* "  hello \n\n world  \n" becomes "hello\n\n world"; and normalizeBody of
\* the output is the output.
C25_NormalizedIdempotent ==
    /\ nPhase \in {"once", "twice"} =>
          /\ \A i \in DOMAIN nOnce : nOnce[i] # "\r"
          /\ \A i \in DOMAIN nOnce : (nOnce[i] = "\n" /\ i > 1) => nOnce[i - 1] \notin WhiteSpace \ {"\n"}
          /\ nOnce # <<>> => (nOnce[1] \notin WhiteSpace /\ nOnce[Len(nOnce)] \notin WhiteSpace)
          /\ SelectSeq(nOnce, LAMBDA c : c \notin WhiteSpace)
                = SelectSeq(nValue, LAMBDA c : c \notin WhiteSpace)
          /\ (/\ \A i \in DOMAIN nValue : nValue[i] # "\r"
              /\ \A i \in DOMAIN nValue : i + 1 \in nLineEnds(nValue) => nValue[i] \notin WhiteSpace
              /\ nValue # <<>> => nValue[1] \notin WhiteSpace) => nOnce = nValue
          /\ nValue = ExampleBody => nOnce = ExampleNormalized
    /\ nPhase = "twice" => nTwice = nOnce

\* A string with a CR LF pair, white space before it and text after it
C25_Witness ==
    /\ nPhase = "twice"
    /\ nOnce # nValue
    /\ \E i \in DOMAIN nValue :
          /\ i + 2 \in DOMAIN nValue
          /\ nValue[i] \in {" ", "\t"}
          /\ nValue[i + 1] = "\r"
          /\ nValue[i + 2] = "\n"
    /\ \E i \in DOMAIN nOnce : nOnce[i] = "\n"

----------------------------------------------------------------------------
(* Claims on the service worker, checked under SpecWorker *)

swNavigation ==
    /\ swLast # Null
    /\ swLast[1].request.get /\ swLast[1].request.sameOrigin /\ swLast[1].request.navigate

\* C26: a same-origin GET navigation handled by the worker gets the network
\* response when the fetch succeeds and the '/index.html' entry of the cache
\* when it fails; the worker handles fetch events only once install has put
\* the shell list in the cache, so the entry is there and the navigation
\* always gets a response.
C26_NavigationAnswered ==
    /\ swNavigation =>
          /\ swLast[1].networkOk
                => swLast[1].response = <<responseOf("network", swLast[1].request.url)>>
          /\ ~swLast[1].networkOk => swLast[1].response = swLast[1].indexEntry
          /\ swLast[1].response # Null
    /\ swState = "activated" =>
          \A f \in APP_SHELL_FILES : cacheMatch(swCache, f) # Null

\* A navigation to '/' with the network down, answered with an '/index.html'
\* entry that an earlier navigation to another URL had replaced
C26_Witness ==
    /\ swNavigation
    /\ ~swLast[1].networkOk
    /\ swLast[1].request.url = "/"
    /\ swLast[1].response = <<responseOf("network", "/assets/index.js")>>

\* ---------------------------------------------------------------------------
\* Claims on the forms and their requests, checked under SpecForm
\* ---------------------------------------------------------------------------

\* The open requests of the kinds given.
fOpen(kinds) == {i \in DOMAIN fQueue : fQueue[i].kind \in kinds}

\* C21: a note body is never persisted empty: whatever the user types, and
\* whether a submission comes from a button or from the keyboard shortcut, and
\* whether an edit was opened by the button or by a swipe, every create and
\* edit request that is open carries a body that is not empty after
\* normalizeBody, and so does every document the store holds.
C21_NeverEmpty ==
    /\ \A i \in fOpen({"create", "edit"}) : normalizeBody(fQueue[i].body) # <<>>
    /\ \A d \in fDocs : normalizeBody(d.body) # <<>>

\* The shortcut was pressed in an edit textarea holding white space only, and
\* no edit request went out.
C21_Witness ==
    /\ fLast.name = "handleEditKeyDown"
    /\ ~fLast.ok
    /\ fEditBody # <<>>
    /\ normalizeBody(fEditBody) = <<>>
    /\ fOpen({"edit"}) = {}

\* The delete requests among the open calls.
deletesOf(queue) == {i \in DOMAIN queue : queue[i].kind = "delete"}

\* The step is handleDelete, from the button or from a swipe to the left.
deleteAsked == fLast'.kind = "delete" /\ fLast'.name \in {"handleDelete", "handleTouchEnd"}

\* C22: a delete request is dispatched only after the user confirms: the
\* number of open delete requests grows only in a step of handleDelete (from
\* the delete button or from a swipe to the left) whose confirmation was
\* accepted, and a handleDelete whose confirmation was declined leaves the
\* open calls and all of the App's state as they were.
C22_DeleteAfterConfirm ==
    [][/\ Cardinality(deletesOf(fQueue')) > Cardinality(deletesOf(fQueue)) => deleteAsked /\ fLast'.ok
       /\ deleteAsked /\ ~fLast'.ok => UNCHANGED <<fUser, fDocs, fNotes, fDraft, fEditId, fEditBody, fAuthPending, fError, fQueue>>]_vars

\* A swipe to the left was declined while an error message was shown and
\* another call was open: the message is still shown and no delete is open.
C22_Witness ==
    /\ fLast.kind = "delete"
    /\ fLast.name = "handleTouchEnd"
    /\ ~fLast.ok
    /\ fError # <<>>
    /\ fQueue # <<>>
    /\ deletesOf(fQueue) = {}

\* C23: for each note and each kind of intent (edit, pin toggle, delete) and
\* for create, at most one persistence request is open at a time: no two open
\* calls are of the same kind for the same note, and no two are creations.
C23_OneInFlight ==
    \A i, j \in fOpen({"create", "edit", "pin", "delete"}) :
        i # j /\ fQueue[i].kind = fQueue[j].kind => fQueue[i].kind # "create" /\ fQueue[i].id # fQueue[j].id

\* The step that ran last was the failure of a call: a rejected promise or
\* the error callback of the snapshot subscription.
fFailed == fLast.name \in {"rejected", "onSnapshotError"}

\* The text the claim names for an error: the hint for a permission error, the
\* hint for a missing index, otherwise the error's own message.
statedText(error) ==
    IF includes(error.message, "Missing or insufficient permissions")
    THEN PermissionHintText
    ELSE IF includes(error.message, "The query requires an index") THEN IndexHintText ELSE error.message

\* The same, with the text for an error that has no message of its own.
mappedText(error) == IF error.hasMessage THEN statedText(error) ELSE UnexpectedErrorText

----------------------------------------------------------------------------
(* Claims on the touch drag and its sessions, checked under Spec *)

\* The long-press drag of the note under the finger is under way.
touchDragging == touchOn # NoId /\ touchDragId = touchOn /\ swipeRef = touchOn

\* C31: during a touch drag the insertion indicator is unset until the finger
\* has moved TOUCH_DRAG_ACTIVATE_MOVE_PX from the press point, or the drag was
\* marked as moved: while the drag of the note under the finger is not marked
\* as moved no indicator is set.
C31_NoIndicatorBeforeActivation == touchDragging /\ dragMovedId # touchDragId => dropIndicator = Null

\* C32: a touch session becomes a drag only through its long-press timer
\* firing while its press is the current session: every step that makes a
\* note the touch-dragged one finds the finger on that note, so a press that
\* has ended, was cancelled, or moved past TOUCH_DRAG_MOVE_THRESHOLD_PX before
\* the timer fired never enters the dragging state.
C32_DragOnlyByCurrentPress == [][touchDragId' # touchDragId /\ touchDragId' # NoId => touchOn = touchDragId' /\ longPressTimer = touchDragId']_vars

----------------------------------------------------------------------------
(* Claims on releases that end a drag, checked under SpecSwipe *)

\* C33: while a drag is under way swipe recognition is suppressed: a touch
\* release that finds a drag opens no edit mode and dispatches no delete,
\* whatever the displacement of the finger; the writes it adds, if any, are
\* the batch of its reorder.
C33_DragSuppressesSwipe ==
    (lastTouchEnd # Null /\ lastTouchEnd[1].dragging) =>
        LET r == lastTouchEnd[1]
        IN  /\ editId = r.editId
            /\ Len(writeQueue) >= Len(r.writeQueue)
            /\ \A i \in DOMAIN writeQueue : i > Len(r.writeQueue) => writeQueue[i].kind # "delete"

\* A long-press drag was released far enough to the left to be a swipe, and
\* with the confirmation accepted had it been asked: nothing was deleted and
\* no editor opened.
C33_Witness ==
    /\ lastTouchEnd # Null
    /\ lastTouchEnd[1].dragging
    /\ lastTouchEnd[1].armed
    /\ sQualifies(lastTouchEnd[1])
    /\ lastTouchEnd[1].deltaX < 0
    /\ lastTouchEnd[1].ok
    /\ editId = NoId
    /\ writeQueue = lastTouchEnd[1].writeQueue

----------------------------------------------------------------------------
(* Claims on what a failure puts back, checked under SpecForm *)

\* The open creation that the step settles, if it settles one.
createSettled(i) == i \in DOMAIN fQueue /\ fQueue[i].kind = "create" /\ fQueue' = removeAt(fQueue, i)

\* C34: a creation is optimistic and rolled back on failure: the step that
\* dispatches a create request empties the compose box; the step in which a
\* create request fails sets the box to the submitted body when the box is
\* empty and leaves it as it is when the user has typed meanwhile; the step in
\* which a create request succeeds leaves the box alone.
C34_DraftRollback ==
    [][/\ Cardinality(fOpen({"create"})') > Cardinality(fOpen({"create"})) => fDraft' = <<>>
       /\ \A i \in DOMAIN fQueue : createSettled(i) =>
             IF fLast'.name = "rejected"
             THEN fDraft' = (IF fDraft = <<>> THEN fQueue[i].body ELSE fDraft)
             ELSE fDraft' = fDraft]_vars

\* A creation failed after the user had typed into the emptied box again: the
\* box holds what was typed, trailing space and all, not the submitted body.
C34_Witness ==
    /\ fLast.name = "rejected"
    /\ fLast.kind = "create"
    /\ fDraft # <<>>
    /\ normalizeBody(fDraft) # fDraft
    /\ fOpen({"create"}) = {}

----------------------------------------------------------------------------
(* Claims on the end of a gesture session, checked under Spec *)

\* The step is a release: the finger leaves the screen, a drop is delivered,
\* or the mouse drag is over.
released ==
    \/ touchOn # NoId /\ touchOn' = NoId
    \/ nativeDrag # NoId /\ ~nativeDropped /\ nativeDropped'
    \/ nativeDrag # NoId /\ nativeDrag' = NoId

\* C35: every gesture session ends idle: after any release (the end of a
\* touch, a drop on a note or on a spacer, the end of a mouse drag), whatever
\* became of the reorder, the drag id, the touch-drag id, the drag follower
\* and the insertion indicator are cleared and no long-press timer is pending.
C35_SessionsEndIdle ==
    [][released => dragId' = NoId /\ touchDragId' = NoId /\ dragFollower' = NoId /\ dropIndicator' = Null /\ longPressTimer' = NoId]_vars

----------------------------------------------------------------------------
(* Claims on the frame of a reorder, checked under SpecReorder *)

----------------------------------------------------------------------------
(* Claims on a failed save beside another edit, checked under SpecEdit *)

\* The step is the failure of the open save i.
saveFailed(i) == i \in DOMAIN fQueue /\ fQueue[i].kind = "edit" /\ fQueue' = removeAt(fQueue, i) /\ fLast'.name = "rejected"

\* C37: a failed save discards no other input: when the save of a note fails
\* while another note is being edited, that note's edit session (editId and
\* the text typed) is left as it is; when no note is being edited, edit mode
\* on the note is restored with the text the user had typed.
C37_OtherEditKept ==
    [][\A i \in DOMAIN fQueue : saveFailed(i) =>
          IF fEditId = 0
          THEN fEditId' = fQueue[i].id /\ fEditBody' = fQueue[i].editBody
          ELSE fEditId # fQueue[i].id => fEditId' = fEditId /\ fEditBody' = fEditBody]_vars

----------------------------------------------------------------------------
(* Claims on the page-scroll lock, checked under Spec *)

\* The step ends a session: the finger leaves the screen (touch end, touch
\* cancel), the mouse drag is over, or the deletion of the dragged note is
\* answered.
sessionEnds ==
    \/ touchOn # NoId /\ touchOn' = NoId
    \/ nativeDrag # NoId /\ nativeDrag' = NoId
    \/ /\ writeQueue # <<>> /\ writeQueue' = Tail(writeQueue)
       /\ Head(writeQueue).kind = "delete"
       /\ Head(writeQueue).id \in {dragId, touchDragId}
       /\ docs' # docs

\* C38: the page-scroll lock is held only during a touch drag: whenever the
\* lock is set a note is being touch-dragged, and every step that ends the
\* session (touch end, touch cancel, drag end, deletion of the dragged note)
\* leaves the lock released.
C38_LockOnlyInDrag ==
    [][/\ touchScrollLock' => touchDragId' # NoId
       /\ sessionEnds => ~touchScrollLock']_vars

----------------------------------------------------------------------------
(* Claims on accounts and owners, checked under SpecAuth *)

\* The step hands the store a write of one of these kinds.
dispatches(req) == fQueue' = Append(fQueue, req) /\ req.kind \in {"create", "edit", "pin", "reorder"}

\* The step delivers to the auth listener an account that is not of the
\* allowlist.
deliversDisallowed ==
    /\ fLast'.name = "onAuthStateChanged"
    /\ \E account \in AuthAccounts :
          account.uid = fLast'.id /\ normalizeEmail(account.email) \notin ALLOWED_USER_EMAILS

====
